---- MODULE Spec2Model ----
(***************************************************************************)
(* A model of python-package-folder: the import classifier                 *)
(* (analyzer.py), the dependency locator (finder.py) and the staging       *)
(* manager (manager.py: prepare_build, _copy_dependency,                   *)
(* _copytree_excluding, cleanup, run_build) over an explicit file tree.    *)
(*                                                                         *)
(* A file name is a record [stem, ext] of character sequences, a path is   *)
(* the sequence of the names below the file-system root, and a file's      *)
(* content is the sequence of its import statements.                       *)
(***************************************************************************)
EXTENDS Integers, Sequences, FiniteSets, TLC

VARIABLES
    fs,            \* the file tree: [dirs: set of paths, files: path -> content]
    copied_files,  \* BuildManager.copied_files
    copied_dirs,   \* BuildManager.copied_dirs
    deps,          \* the list returned by the last prepare_build
    pc,            \* position of the caller / of run_build / of cleanup
    phase,         \* inside cleanup: the index of the step to run next
    ret,           \* where cleanup returns to: "idle" or "run_build"
    atCleanup,     \* the tree and the tracking lists when cleanup was entered
    rmFailed,      \* the paths the running (or last) cleanup failed to remove
    clRaised,      \* the running (or last) cleanup let an exception escape
    exc,           \* an exception is propagating out of run_build's try block
    trace,         \* the steps run_build has performed since it was entered
    hist,          \* the completed operations, each with the tree it left
    scanOrder,     \* the order os.scandir yields entries in: "files" or "dirs" first
    imp,           \* the ImportInfo handed to classify_import
    cls,           \* classify_import's result for imp
    config,        \* the fields of the SubfolderBuildConfig
    publish,       \* the steps build_and_publish has performed; <<>> outside it
    listing,       \* the last find_all_python_files call: its directory and its result
    extracted,     \* the last extract_imports call: its file and its result
    cli,           \* the arguments of main() and what it decided
    subfolder_config, \* BuildManager.subfolder_config; NoConfig stands for None
    modified_import_files \* BuildManager._modified_import_files: path -> the text kept for cleanup

vars == <<fs, copied_files, copied_dirs, deps, pc, phase, ret, atCleanup,
          rmFailed, clRaised, exc, trace, hist, scanOrder, imp, cls, config,
          publish, listing, extracted,
          cli,
          subfolder_config,
          modified_import_files>>

----------------------------------------------------------------------------
(* Names and paths (pathlib.PurePosixPath)                                 *)

NoExt == <<>>
PyExt == <<".", "p", "y">>
EggExt == <<".", "e", "g", "g", "-", "i", "n", "f", "o">>

D(s) == [stem |-> s, ext |-> NoExt]
Py(s) == [stem |-> s, ext |-> PyExt]

\* Path.name as a string
FullName(n) == n.stem \o n.ext

InitPy == Py(<<"_", "_", "i", "n", "i", "t", "_", "_">>)

Root == <<>>

\* Path.parent ("/".parent is "/")
Parent(p) == IF p = <<>> THEN <<>> ELSE SubSeq(p, 1, Len(p) - 1)

Last(p) == p[Len(p)]

\* Path.is_relative_to
IsRelativeTo(p, q) == Len(q) <= Len(p) /\ SubSeq(p, 1, Len(q)) = q

\* Path.with_suffix(".py") on a path whose last name has a stem
WithSuffixPy(p) == SubSeq(p, 1, Len(p) - 1) \o <<Py(Last(p).stem)>>

\* base / "a/b/c" for a list of segment strings without dots
JoinParts(base, parts) == base \o [i \in 1..Len(parts) |-> D(parts[i])]

\* str.startswith
StartsWith(s, pat) == Len(pat) <= Len(s) /\ SubSeq(s, 1, Len(pat)) = pat

\* pattern in s (substring)
Contains(s, pat) ==
    \E i \in 0..(Len(s) - Len(pat)) : SubSeq(s, i + 1, i + Len(pat)) = pat

RECURSIVE SeqOfSet(_)
SeqOfSet(S) ==
    IF S = {} THEN <<>>
    ELSE LET x == CHOOSE y \in S : TRUE IN <<x>> \o SeqOfSet(S \ {x})

Range(s) == {s[i] : i \in 1..Len(s)}

\* The element of a singleton.  A value that is used more than once is bound
\* as The({body : v \in {value}}), which computes it once.
The(S) == CHOOSE r \in S : TRUE

----------------------------------------------------------------------------
(* The file tree                                                           *)

IsDir(t, p) == p \in t.dirs
IsFile(t, p) == p \in DOMAIN t.files
Exists(t, p) == IsDir(t, p) \/ IsFile(t, p)

Children(t, d) == {p \in t.dirs \cup DOMAIN t.files : p # <<>> /\ Parent(p) = d}

\* Path.rglob("*"): every strict descendant
Descendants(t, d) ==
    {p \in t.dirs \cup DOMAIN t.files : p # d /\ IsRelativeTo(p, d)}

\* Path.rglob("*.py")
RglobPy(t, d) == {p \in Descendants(t, d) : Last(p).ext = PyExt}

Prefixes(p) == {SubSeq(p, 1, k) : k \in 0..Len(p)}

\* Path.mkdir(parents=True, exist_ok=True) raises when a regular file is in
\* the way of the directory or of one of its parents
MkdirRaises(t, d) == \E q \in Prefixes(d) : IsFile(t, q)

\* Path.mkdir(parents=True, exist_ok=True)
MkdirP(t, d) == [t EXCEPT !.dirs = @ \cup Prefixes(d)]

\* write_text / the file half of shutil.copy2
WriteFile(t, p, c) == [t EXCEPT !.files = (p :> c) @@ @]

\* Path.unlink
Unlink(t, p) ==
    [t EXCEPT !.files = [q \in (DOMAIN @) \ {p} |-> @[q]]]

\* shutil.rmtree
RmTree(t, d) ==
    [dirs |-> {p \in t.dirs : ~IsRelativeTo(p, d)},
     files |-> [q \in {p \in DOMAIN t.files : ~IsRelativeTo(p, d)} |-> t.files[q]]]

\* shutil.copy2(src, dst): into dst when dst is a directory
Copy2(t, src, dst) ==
    IF IsDir(t, dst) THEN WriteFile(t, dst \o <<Last(src)>>, t.files[src])
    ELSE WriteFile(t, dst, t.files[src])

----------------------------------------------------------------------------
(* The layout: BuildManager(project_root, src_dir)                         *)

n_p == <<"p">>
n_src == <<"s", "r", "c">>
n_os == <<"o", "s">>
n_sys == <<"s", "y", "s">>
n_requests == <<"r", "e", "q", "u", "e", "s", "t", "s">>

ProjectRoot == <<D(n_p)>>
SrcDir == <<D(n_p), D(n_src)>>

\* the absent path (None)
NoPath == <<[stem |-> <<>>, ext |-> <<>>]>>

----------------------------------------------------------------------------
(* analyzer.py                                                             *)

\* A module name "..a.b" is [level |-> 2, parts |-> <<a, b>>].
\* A file is the sequence of its import statements, one a line; a statement
\* is [level, parts]: `import a.b` is level 0, `from ..a import x` level 2,
\* and `from . import x` has parts = <<>>.
\* An ImportInfo is [module_name, line_number, file_path].

StdlibModules == {n_os, n_sys}

InstalledModules == {n_requests}

\* module_name.split(".")[0]
RootModule(m) == IF m.level > 0 THEN <<>> ELSE m.parts[1]

\* a statement inside a compound statement carries its depth in the syntax
\* tree: `if c: import a` is [level |-> 0, parts |-> <<a>>, depth |-> 1]
Nested(stmt, depth) == [level |-> stmt.level, parts |-> stmt.parts, depth |-> depth]

DepthOf(stmt) == IF "depth" \in DOMAIN stmt THEN stmt.depth ELSE 0

\* ast.walk(tree) is breadth first: the statements in the order of their
\* depth, and in the order of the file among those of one depth
AstWalk(stmts) ==
    SortSeq([i \in 1..Len(stmts) |-> i],
            LAMBDA a, b : \/ DepthOf(stmts[a]) < DepthOf(stmts[b])
                          \/ DepthOf(stmts[a]) = DepthOf(stmts[b]) /\ a < b)

\* extract_imports: ast.Import keeps alias.name, ast.ImportFrom keeps
\* node.module when it is not empty; node.level is not recorded
ExtractImports(t, file) ==
    LET stmts == t.files[file]
        kept == SelectSeq(AstWalk(stmts), LAMBDA i : stmts[i].parts # <<>>)
    IN [k \in 1..Len(kept) |->
           [module_name |-> [level |-> 0, parts |-> stmts[kept[k]].parts],
            line_number |-> kept[k],
            file_path |-> file]]

\* base / module_name.replace(".", "/"): a leading "/" makes the right
\* operand absolute, and pathlib then drops the base
ModPath(base, m) ==
    IF m.level > 0 THEN JoinParts(Root, m.parts) ELSE JoinParts(base, m.parts)

\* current = file_dir; for _ in range(level - 1): current = current.parent
Ascend(p, k) == SubSeq(p, 1, IF Len(p) > k THEN Len(p) - k ELSE 0)

ResolveRelative(t, info) ==
    LET m == info.module_name
        base == Ascend(Parent(info.file_path), m.level - 1)
        potential == JoinParts(base, m.parts)
    IN IF info.file_path = NoPath \/ m.level = 0 THEN NoPath
       ELSE IF Exists(t, potential \o <<InitPy>>) THEN potential \o <<InitPy>>
       ELSE IF Exists(t, WithSuffixPy(potential)) THEN WithSuffixPy(potential)
       ELSE NoPath

RECURSIVE FirstExisting(_, _)
FirstExisting(t, cands) ==
    IF cands = <<>> THEN NoPath
    ELSE IF Exists(t, Head(cands)) THEN Head(cands)
    ELSE FirstExisting(t, Tail(cands))

\* list(Path.parents): the parent first, the root last
RECURSIVE ParentsOf(_)
ParentsOf(p) == IF p = <<>> THEN <<>> ELSE <<Parent(p)>> \o ParentsOf(Parent(p))

RECURSIVE WalkParents(_, _, _, _)
WalkParents(t, check_dirs, m, project_root) ==
    IF check_dirs = <<>> THEN NoPath
    ELSE LET parent == Head(check_dirs)
             potential == ModPath(parent, m)
             potential_file == parent \o <<Py(m.parts[Len(m.parts)])>>
         IN IF parent = Parent(project_root) THEN NoPath
            ELSE IF ~Exists(t, parent)
                 THEN WalkParents(t, Tail(check_dirs), m, project_root)
            ELSE IF IsDir(t, potential) /\ Exists(t, potential \o <<InitPy>>)
                 THEN potential \o <<InitPy>>
            ELSE IF IsFile(t, WithSuffixPy(potential)) THEN WithSuffixPy(potential)
            ELSE IF Exists(t, potential_file) THEN potential_file
            ELSE WalkParents(t, Tail(check_dirs), m, project_root)

ResolveAbsolute(t, info, src_dir, project_root) ==
    LET m == info.module_name
        direct == FirstExisting(t,
                    << ModPath(src_dir, m) \o <<InitPy>>,
                       WithSuffixPy(ModPath(src_dir, m)),
                       ModPath(project_root, m) \o <<InitPy>>,
                       WithSuffixPy(ModPath(project_root, m)) >>)
    IN The({IF d # NoPath THEN d
            ELSE WalkParents(t, <<Parent(src_dir)>> \o ParentsOf(src_dir), m, project_root)
            : d \in {direct}})

ResolveLocalImport(t, info, src_dir, project_root) ==
    The({IF rel # NoPath THEN rel ELSE ResolveAbsolute(t, info, src_dir, project_root)
         : rel \in {ResolveRelative(t, info)}})

\* importlib.util.find_spec(root_module) lands in site-packages
IsThirdParty(m) == m.level = 0 /\ RootModule(m) \in InstalledModules

\* classify_import with the two checks exchanged: the local lookup first
ClassifyImportResolveFirst(t, info, src_dir, project_root) ==
    The({
        IF resolved # NoPath
        THEN [classification |->
                  IF IsRelativeTo(resolved, src_dir) THEN "local" ELSE "external",
              resolved_path |-> resolved]
        ELSE IF RootModule(info.module_name) \in StdlibModules
        THEN [classification |-> "stdlib", resolved_path |-> NoPath]
        ELSE IF IsThirdParty(info.module_name)
        THEN [classification |-> "third_party", resolved_path |-> NoPath]
        ELSE [classification |-> "ambiguous", resolved_path |-> NoPath]
        : resolved \in {ResolveLocalImport(t, info, src_dir, project_root)}})

ClassifyImport(t, info, src_dir, project_root) ==
    IF RootModule(info.module_name) \in StdlibModules
    THEN [classification |-> "stdlib", resolved_path |-> NoPath]
    ELSE The({
        IF resolved # NoPath
        THEN [classification |->
                  IF IsRelativeTo(resolved, src_dir) THEN "local" ELSE "external",
              resolved_path |-> resolved]
        ELSE IF IsThirdParty(info.module_name)
        THEN [classification |-> "third_party", resolved_path |-> NoPath]
        ELSE [classification |-> "ambiguous", resolved_path |-> NoPath]
        : resolved \in {ResolveLocalImport(t, info, src_dir, project_root)}})

\* find_all_python_files
TOOL_DIRS == { <<".", "v", "e", "n", "v">>, <<"v", "e", "n", "v">>,
               <<"_", "_", "p", "y", "c", "a", "c", "h", "e", "_", "_">>,
               <<".", "g", "i", "t">>,
               <<".", "p", "y", "t", "e", "s", "t", "_", "c", "a", "c", "h", "e">>,
               <<".", "m", "y", "p", "y", "_", "c", "a", "c", "h", "e">>,
               <<"n", "o", "d", "e", "_", "m", "o", "d", "u", "l", "e", "s">>,
               <<".", "t", "o", "x">>, <<"d", "i", "s", "t">>,
               <<"b", "u", "i", "l", "d">> }

ToolExcluded(p) ==
    \E i \in 1..Len(p) :
        \/ \E pat \in TOOL_DIRS : StartsWith(FullName(p[i]), pat)
        \/ Contains(FullName(p[i]), EggExt)

FindAllPythonFiles(t, directory) ==
    {p \in RglobPy(t, directory) : IsFile(t, p) /\ ~ToolExcluded(p)}

----------------------------------------------------------------------------
(* finder.py                                                               *)

\* default_patterns
EXCLUDE_PATTERNS ==
    { <<"_", "S", "S">>, <<"_", "_", "S", "S">>,
      <<"_", "s", "a", "n", "d", "b", "o", "x">>,
      <<"_", "_", "s", "a", "n", "d", "b", "o", "x">>,
      <<"_", "s", "k", "i", "p">>, <<"_", "_", "s", "k", "i", "p">>,
      <<"_", "t", "e", "s", "t">>, <<"_", "_", "t", "e", "s", "t", "_", "_">> }

\* the exclude_patterns argument the finder and the manager are constructed with
exclude_patterns == { <<"t", "m", "p">> }

\* an exclusion test that excludes nothing
ShouldExcludeNothing(p) == FALSE

\* _should_exclude_path, and should_exclude of _copytree_excluding:
\* default_patterns + exclude_patterns, on every part of the path
ShouldExcludePath(p) ==
    \E i \in 1..Len(p) : \E pat \in EXCLUDE_PATTERNS \cup exclude_patterns :
        StartsWith(FullName(p[i]), pat)

\* the smallest i in 1..n with module_parts[-i:] == relative_parts[-i:], or 0
RECURSIVE TailMatch(_, _, _, _)
TailMatch(mod, rel, i, n) ==
    IF i > n THEN 0
    ELSE IF SubSeq(mod, Len(mod) - i + 1, Len(mod)) = SubSeq(rel, Len(rel) - i + 1, Len(rel))
         THEN i
    ELSE TailMatch(mod, rel, i + 1, n)

DetermineTargetPath(t, source_path, m, src_dir, project_root) ==
    LET module_parts == m.parts
        src_base == project_root \o <<D(n_src)>>
        relative_path == SubSeq(source_path, Len(project_root) + 1, Len(source_path))
        relative_parts == [i \in 1..Len(relative_path) |-> FullName(relative_path[i])]
        nmin == IF Len(relative_parts) < Len(module_parts)
                THEN Len(relative_parts) ELSE Len(module_parts)
        i == TailMatch(module_parts, relative_parts, 1, nmin)
        fallback == JoinParts(src_dir, SubSeq(module_parts, 1, Len(module_parts) - 1))
    IN IF ~Exists(t, source_path) THEN NoPath
       ELSE IF Exists(t, src_base) /\ IsRelativeTo(source_path, src_base)
       THEN src_dir \o SubSeq(source_path, Len(src_base) + 1, Len(source_path))
       ELSE IF Len(module_parts) > 1
       THEN IF IsDir(t, source_path)
            THEN IF ~IsRelativeTo(source_path, project_root) THEN fallback
                 ELSE IF /\ Len(module_parts) > Len(relative_parts)
                         /\ SubSeq(module_parts, 1, Len(relative_parts)) = relative_parts
                 THEN src_dir \o relative_path
                 ELSE IF Len(relative_parts) <= Len(module_parts) /\ i > 0
                 THEN JoinParts(src_dir,
                          SubSeq(module_parts, 1,
                                 IF i > 1 THEN Len(module_parts) - i + 1
                                 ELSE Len(module_parts)))
                 ELSE fallback
            ELSE fallback \o <<Last(source_path)>>
       ELSE src_dir \o <<Last(source_path)>>

\* find_external_dependencies' loop body without the test of the
\* classification and without the final test of the source's location
FindClassifiedUnchecked(t, acc, info, c, src_dir, project_root) ==
    LET resolved == c.resolved_path
        parent_dir == Parent(resolved)
        should_copy_dir ==
            /\ ~ShouldExcludePath(parent_dir)
            /\ ~IsRelativeTo(parent_dir, src_dir)
            /\ ~IsRelativeTo(src_dir, parent_dir)
            /\ parent_dir # project_root
            /\ parent_dir # Parent(project_root)
        source_path == IF IsFile(t, resolved) /\ should_copy_dir THEN parent_dir
                       ELSE resolved
    IN IF ShouldExcludePath(resolved) THEN acc
       ELSE IF ~Exists(t, resolved) THEN acc
       ELSE IF source_path \in acc.seen THEN acc
       ELSE The({
           IF target_path # NoPath
           THEN [deps |-> Append(acc.deps,
                             [source_path |-> source_path, target_path |-> target_path,
                              import_name |-> info.module_name,
                              file_path |-> info.file_path]),
                 seen |-> acc.seen \cup {source_path}]
           ELSE [acc EXCEPT !.seen = @ \cup {source_path}]
           : target_path \in {DetermineTargetPath(t, source_path, info.module_name,
                                                  src_dir, project_root)}})

\* find_external_dependencies' loop body without the seen_paths test
FindClassifiedNoSeen(t, acc, info, c, src_dir, project_root) ==
    LET resolved == c.resolved_path
        parent_dir == Parent(resolved)
        should_copy_dir ==
            /\ ~ShouldExcludePath(parent_dir)
            /\ ~IsRelativeTo(parent_dir, src_dir)
            /\ ~IsRelativeTo(src_dir, parent_dir)
            /\ parent_dir # project_root
            /\ parent_dir # Parent(project_root)
        source_path == IF IsFile(t, resolved) /\ should_copy_dir THEN parent_dir
                       ELSE resolved
    IN IF c.classification # "external" THEN acc
       ELSE IF ShouldExcludePath(resolved) THEN acc
       ELSE IF ~IsFile(t, resolved) /\ IsDir(t, resolved) /\ IsRelativeTo(src_dir, resolved)
       THEN acc
       ELSE IF ~Exists(t, resolved) THEN acc
       ELSE The({
           IF target_path # NoPath /\ ~IsRelativeTo(source_path, src_dir)
           THEN [deps |-> Append(acc.deps,
                             [source_path |-> source_path, target_path |-> target_path,
                              import_name |-> info.module_name,
                              file_path |-> info.file_path]),
                 seen |-> acc.seen \cup {source_path}]
           ELSE [acc EXCEPT !.seen = @ \cup {source_path}]
           : target_path \in {DetermineTargetPath(t, source_path, info.module_name,
                                                  src_dir, project_root)}})

\* the part of find_external_dependencies' loop body after classify_import,
\* for an import classified c; acc = [deps, seen]
FindClassified(t, acc, info, c, src_dir, project_root) ==
    LET resolved == c.resolved_path
        parent_dir == Parent(resolved)
        should_copy_dir ==
            /\ ~ShouldExcludePath(parent_dir)
            /\ ~IsRelativeTo(parent_dir, src_dir)
            /\ ~IsRelativeTo(src_dir, parent_dir)
            /\ parent_dir # project_root
            /\ parent_dir # Parent(project_root)
        source_path == IF IsFile(t, resolved) /\ should_copy_dir THEN parent_dir
                       ELSE resolved
    IN IF c.classification # "external" THEN acc
       ELSE IF ShouldExcludePath(resolved) THEN acc
       ELSE IF ~IsFile(t, resolved) /\ IsDir(t, resolved) /\ IsRelativeTo(src_dir, resolved)
       THEN acc
       ELSE IF ~Exists(t, resolved) THEN acc
       ELSE IF source_path \in acc.seen THEN acc
       ELSE The({
           IF target_path # NoPath /\ ~IsRelativeTo(source_path, src_dir)
           THEN [deps |-> Append(acc.deps,
                             [source_path |-> source_path, target_path |-> target_path,
                              import_name |-> info.module_name,
                              file_path |-> info.file_path]),
                 seen |-> acc.seen \cup {source_path}]
           ELSE [acc EXCEPT !.seen = @ \cup {source_path}]
           : target_path \in {DetermineTargetPath(t, source_path, info.module_name,
                                                  src_dir, project_root)}})

\* one import of find_external_dependencies' inner loop
FindStep(t, acc0, info, src_dir, project_root) ==
    The({FindClassified(t, acc, info, c, src_dir, project_root)
         : acc \in {acc0}, c \in {ClassifyImport(t, info, src_dir, project_root)}})

RECURSIVE FindInImports(_, _, _, _, _)
FindInImports(t, acc, imports, src_dir, project_root) ==
    IF imports = <<>> THEN acc
    ELSE FindInImports(t, FindStep(t, acc, Head(imports), src_dir, project_root),
                       Tail(imports), src_dir, project_root)

RECURSIVE FindInFiles(_, _, _, _, _)
FindInFiles(t, acc, python_files, src_dir, project_root) ==
    IF python_files = <<>> THEN acc
    ELSE FindInFiles(t,
             FindInImports(t, acc, ExtractImports(t, Head(python_files)),
                           src_dir, project_root),
             Tail(python_files), src_dir, project_root)

FindExternalDependencies(t, python_files, src_dir, project_root) ==
    FindInFiles(t, [deps |-> <<>>, seen |-> {}], python_files,
                src_dir, project_root).deps

----------------------------------------------------------------------------
(* manager.py: staging.  A staging state is [fs, cf, cd]: the file tree,   *)
(* copied_files and copied_dirs.                                           *)

\* init_file.write_text("") and copied_files.append(init_file), when absent
EnsureInit(st0, dir) ==
    The({IF Exists(st.fs, dir \o <<InitPy>>) THEN st
         ELSE [st EXCEPT !.fs = WriteFile(@, dir \o <<InitPy>>, <<>>),
                         !.cf = Append(@, dir \o <<InitPy>>)]
         : st \in {st0}})

\* the while loop of _copytree_excluding: markers for the parents up to src_dir
RECURSIVE ParentInits(_, _, _)
ParentInits(st0, current, src_dir) ==
    IF current = src_dir \/ ~IsRelativeTo(current, src_dir) THEN st0
    ELSE The({
        ParentInits(
            IF /\ Parent(current) # src_dir
               /\ ~Exists(st.fs, Parent(current) \o <<InitPy>>)
               /\ RglobPy(st.fs, Parent(current)) # {}
            THEN [st EXCEPT !.fs = WriteFile(@, Parent(current) \o <<InitPy>>, <<>>),
                            !.cf = Append(@, Parent(current) \o <<InitPy>>)]
            ELSE st,
            Parent(current), src_dir)
        : st \in {st0}})

RECURSIVE CopyFileItems(_, _, _)
CopyFileItems(t0, items, dst) ==
    IF items = <<>> THEN t0
    ELSE The({CopyFileItems(Copy2(t, Head(items), dst \o <<Last(Head(items))>>),
                            Tail(items), dst)
              : t \in {t0}})

RECURSIVE CopytreeExcluding(_, _, _, _, _)
RECURSIVE CopyDirItems(_, _, _, _, _)

CopyDirItems(st, items, dst, order, src_dir) ==
    IF items = <<>> THEN st
    ELSE CopyDirItems(
             CopytreeExcluding(st, Head(items), dst \o <<Last(Head(items))>>,
                               order, src_dir),
             Tail(items), dst, order, src_dir)

\* the end of _copytree_excluding: st1 is the state after the loop over
\* the items
CopytreeMarkers(st1, dst, file_items, dir_items, src_dir) ==
    LET has_python_files ==
            \/ \E c \in Range(file_items) : Last(c).ext = PyExt
            \/ \E c \in Range(dir_items) : RglobPy(st1.fs, dst \o <<Last(c)>>) # {}
    IN IF has_python_files
       THEN ParentInits(EnsureInit(st1, dst), dst, src_dir)
       ELSE st1

\* the loop of _copytree_excluding over the items of src
CopytreeItems(st0, dst, file_items, dir_items, order, src_dir) ==
    IF order = "dirs"
    THEN The({[s EXCEPT !.fs = CopyFileItems(@, file_items, dst)]
              : s \in {CopyDirItems(st0, dir_items, dst, order, src_dir)}})
    ELSE CopyDirItems([st0 EXCEPT !.fs = CopyFileItems(@, file_items, dst)],
                      dir_items, dst, order, src_dir)

\* _copytree_excluding after dst.mkdir, for the items of src that are kept
CopytreeBody(st0, dst, fi, di, order, src_dir) ==
    The({The({CopytreeMarkers(st1, dst, file_items, dir_items, src_dir)
              : st1 \in {CopytreeItems(st, dst, file_items, dir_items,
                                       order, src_dir)}})
         : st \in {st0}, file_items \in {fi}, dir_items \in {di}})

\* _copytree_excluding(src, dst); order is the order iterdir yields
\* files and subdirectories in
CopytreeExcluding(st_in, src, dst, order, src_dir) ==
    The({CopytreeBody([st EXCEPT !.fs = MkdirP(@, dst)], dst,
                      SeqOfSet({c \in Children(st.fs, src) :
                                   ~ShouldExcludePath(c) /\ IsFile(st.fs, c)}),
                      SeqOfSet({c \in Children(st.fs, src) :
                                   ~ShouldExcludePath(c) /\ IsDir(st.fs, c)}),
                      order, src_dir)
         : st \in {st_in}})

NamesOf(S) == {Last(p) : p \in S}

\* the idempotency check of _copy_dependency: TRUE when the copy is skipped
AlreadyCopied(t, source, target) ==
    /\ Exists(t, target)
    /\ \/ IsFile(t, source) /\ IsFile(t, target) /\ source = target  \* samefile
       \/ /\ IsDir(t, source) /\ IsDir(t, target)
          /\ Exists(t, source \o <<InitPy>>) = Exists(t, target \o <<InitPy>>)
          /\ NamesOf(RglobPy(t, source)) # {}
          /\ NamesOf(RglobPy(t, target)) # {}
          /\ NamesOf(RglobPy(t, source)) \subseteq NamesOf(RglobPy(t, target))

\* the try block of _copy_dependency
CopyBody(st, source, target, order, src_dir) ==
    IF IsFile(st.fs, source)
    THEN LET st1 == [st EXCEPT !.fs = Copy2(@, source, target),
                               !.cf = Append(@, target)]
         IN IF Last(source).ext = PyExt /\ Parent(target) # src_dir
            THEN EnsureInit(st1, Parent(target))
            ELSE st1
    ELSE IF IsDir(st.fs, source)
    THEN IF IsFile(st.fs, target) THEN st   \* shutil.rmtree raises; caught
         ELSE LET st1 == [st EXCEPT !.fs = RmTree(@, target)]
                  st2 == CopytreeExcluding(st1, source, target, order, src_dir)
              IN [st2 EXCEPT !.cd = Append(@, target)]
    ELSE st

\* _copy_dependency after target_path.parent.mkdir
CopyAfterMkdir(st1, source, target, order, src_dir) ==
    IF AlreadyCopied(st1.fs, source, target) THEN st1
    ELSE CopyBody(st1, source, target, order, src_dir)

\* target.parent.mkdir stands before the try block: what it raises leaves
\* _copy_dependency
CopyDependencyRaises(st, dep) ==
    Exists(st.fs, dep.source_path) /\ MkdirRaises(st.fs, Parent(dep.target_path))

CopyDependency(st0, dep, order, src_dir) ==
    The({IF ~Exists(st.fs, dep.source_path) \/ CopyDependencyRaises(st, dep) THEN st
         ELSE The({CopyAfterMkdir(st1, dep.source_path, dep.target_path, order, src_dir)
                   : st1 \in {[st EXCEPT !.fs = MkdirP(@, Parent(dep.target_path))]}})
         : st \in {st0}})

\* for dep in external_deps: self._copy_dependency(dep)
RECURSIVE CopyAll(_, _, _, _)
CopyAll(st, ds, order, src_dir) ==
    IF ds = <<>> \/ CopyDependencyRaises(st, Head(ds)) THEN st
    ELSE CopyAll(CopyDependency(st, Head(ds), order, src_dir), Tail(ds), order, src_dir)

\* the loop is left by the exception of the first entry that raises
RECURSIVE CopyAllRaises(_, _, _, _)
CopyAllRaises(st, ds, order, src_dir) ==
    IF ds = <<>> THEN FALSE
    ELSE IF CopyDependencyRaises(st, Head(ds)) THEN TRUE
    ELSE CopyAllRaises(CopyDependency(st, Head(ds), order, src_dir), Tail(ds),
                       order, src_dir)

----------------------------------------------------------------------------
(* manager.py: prepare_build, cleanup                                      *)

\* _is_subfolder_build
IsSubfolderBuild(src_dir, project_root) ==
    /\ src_dir # project_root \o <<D(n_src)>>
    /\ src_dir # project_root
    /\ IsRelativeTo(src_dir, project_root)

\* _report_ambiguous_imports reads every file of python_files again:
\* read_text raises when a file is no longer there
ReportRaises(t, python_files) == \E f \in Range(python_files) : ~IsFile(t, f)

\* prepare_build of a build that is not a subfolder build: find the
\* external dependencies of python_files, copy each of them, report
PrepareBuildResult(st, python_files, order) ==
    The({The({The({[st |-> staged, deps |-> external_deps, copy_raised |-> copy_raised,
                    raised |-> copy_raised \/ ReportRaises(staged.fs, python_files)]
                   : copy_raised \in {CopyAllRaises(st, external_deps, order, SrcDir)}})
              : staged \in {CopyAll(st, external_deps, order, SrcDir)}})
         : external_deps \in {FindExternalDependencies(st.fs, python_files,
                                                       SrcDir, ProjectRoot)}})

\* for dir_path in reversed(self.copied_dirs): rmtree when it exists, inside
\* try/except.  bad: the paths whose removal raises; r = [fs, failed, raised],
\* failed the paths whose removal has raised
RECURSIVE RemoveDirs(_, _, _)
RemoveDirs(r0, ds, bad) ==
    The({IF ds = <<>> \/ r.raised THEN r
         ELSE LET d == ds[Len(ds)]
                  rest == SubSeq(ds, 1, Len(ds) - 1)
              IN IF ~Exists(r.fs, d) THEN RemoveDirs(r, rest, bad)
                 ELSE IF d \in bad \/ ~IsDir(r.fs, d)
                      THEN RemoveDirs([r EXCEPT !.failed = @ \cup {d}], rest, bad)
                 ELSE RemoveDirs([r EXCEPT !.fs = RmTree(@, d)], rest, bad)
         : r \in {r0}})

\* the loop over copied_files without its try/except: the first removal
\* that fails ends cleanup with the exception
RECURSIVE RemoveFilesUnguarded(_, _, _)
RemoveFilesUnguarded(r0, fl, bad) ==
    The({IF fl = <<>> \/ r.raised THEN r
         ELSE LET f == Head(fl)
              IN IF ~Exists(r.fs, f) THEN RemoveFilesUnguarded(r, Tail(fl), bad)
                 ELSE IF f \in bad \/ ~IsFile(r.fs, f)
                      THEN [r EXCEPT !.failed = @ \cup {f}, !.raised = TRUE]
                 ELSE RemoveFilesUnguarded([r EXCEPT !.fs = Unlink(@, f)], Tail(fl), bad)
         : r \in {r0}})

\* for file_path in self.copied_files: unlink when it exists, inside try/except
RECURSIVE RemoveFiles(_, _, _)
RemoveFiles(r0, fl, bad) ==
    The({IF fl = <<>> \/ r.raised THEN r
         ELSE LET f == Head(fl)
              IN IF ~Exists(r.fs, f) THEN RemoveFiles(r, Tail(fl), bad)
                 ELSE IF f \in bad \/ ~IsFile(r.fs, f)
                      THEN RemoveFiles([r EXCEPT !.failed = @ \cup {f}], Tail(fl), bad)
                 ELSE RemoveFiles([r EXCEPT !.fs = Unlink(@, f)], Tail(fl), bad)
         : r \in {r0}})

\* _cleanup_egg_info_dirs
EggInfoDirs(t) ==
    {d \in Descendants(t, SrcDir) \cup Descendants(t, ProjectRoot) :
        IsDir(t, d) /\ Last(d).ext = EggExt}

RECURSIVE RmTrees(_, _)
RmTrees(t0, ds) ==
    IF ds = <<>> THEN t0
    ELSE The({RmTrees(RmTree(t, Head(ds)), Tail(ds)) : t \in {t0}})

CleanupEggInfoDirs(t) == RmTrees(t, SeqOfSet(EggInfoDirs(t)))

\* cleanup without its last call
CleanupEmptyDirsSkipped(t) == t

\* _cleanup_empty_dirs: the directories under src_dir, deepest first
RECURSIVE RemoveEmptyAtDepth(_, _, _)
RemoveEmptyAtDepth(t0, all_dirs, depth) ==
    IF depth <= Len(SrcDir) THEN t0
    ELSE The({RemoveEmptyAtDepth(
                  [t EXCEPT !.dirs = @ \ {d \in all_dirs :
                       Len(d) = depth /\ IsDir(t, d) /\ Children(t, d) = {}}],
                  all_dirs, depth - 1)
              : t \in {t0}})

MaxDepth(S) == IF S = {} THEN 0 ELSE CHOOSE n \in {Len(d) : d \in S} : \A d \in S : Len(d) <= n

CleanupEmptyDirs(t) ==
    IF ~Exists(t, SrcDir) THEN t
    ELSE The({RemoveEmptyAtDepth(t, all_dirs, MaxDepth(all_dirs))
              : all_dirs \in {{d \in Descendants(t, SrcDir) : IsDir(t, d)}}})

\* the steps of cleanup with the two loops exchanged
CleanupStepsFilesFirst == <<"files", "dirs", "clear", "egg_info", "empty_dirs">>

\* the steps of cleanup, in the order the method performs them
CleanupSteps == <<"dirs", "files", "clear", "egg_info", "empty_dirs">>

\* one step of cleanup on c = [fs, cf, cd, failed, raised]
CleanupStep(step, c, bad) ==
    CASE step = "dirs" ->
           The({[c EXCEPT !.fs = r.fs, !.failed = r.failed, !.raised = r.raised]
                : r \in {RemoveDirs([fs |-> c.fs, failed |-> c.failed,
                                     raised |-> c.raised], c.cd, bad)}})
      [] step = "files" ->
           The({[c EXCEPT !.fs = r.fs, !.failed = r.failed, !.raised = r.raised]
                : r \in {RemoveFiles([fs |-> c.fs, failed |-> c.failed,
                                      raised |-> c.raised], c.cf, bad)}})
      [] step = "clear" -> [c EXCEPT !.cf = <<>>, !.cd = <<>>]
      [] step = "egg_info" -> [c EXCEPT !.fs = CleanupEggInfoDirs(@)]
      [] step = "empty_dirs" -> [c EXCEPT !.fs = CleanupEmptyDirs(@)]

\* run_build without the finally: cleanup only after a build that returned
RunBuildNextNoFinally(pos, raised) ==
    CASE pos = "rb_prepare" -> IF raised THEN "rb_return" ELSE "rb_build"
      [] pos = "rb_build" -> IF raised THEN "rb_return" ELSE "rb_finally"
      [] pos = "rb_finally" -> "cleanup"

\* run_build's try/finally: the position after the step at pos has ended,
\* normally or (raised) with an exception
RunBuildNext(pos, raised) ==
    CASE pos = "rb_prepare" -> IF raised THEN "rb_finally" ELSE "rb_build"
      [] pos = "rb_build" -> "rb_finally"
      [] pos = "rb_finally" -> "cleanup"

----------------------------------------------------------------------------
(* The initial file trees                                                  *)

MaxOps == 2                 \* operations a caller performs on one BuildManager
MaxExternalRemovals == 1    \* tracked paths removed from outside the program
MaxRemovalFailures == 1     \* removals that fail within one step of cleanup

n_f == <<"f">>
n_u == <<"u">>
n_v == <<"v">>
n_l == <<"l">>
n_w == <<"w">>
n_e == <<"e">>
n_k == <<"k">>
n_y == <<"y">>
n_x == <<"x">>
n_zz == <<"z", "z">>
n_sub == <<"s", "u", "b">>
n_SS == <<"_", "S", "S">>

Mod(parts) == [level |-> 0, parts |-> parts]
Rel(level, parts) == [level |-> level, parts |-> parts]

\* a tree from its files and its empty directories
MkTree(files, empty_dirs) ==
    [dirs |-> UNION {Prefixes(Parent(q)) : q \in DOMAIN files}
              \cup UNION {Prefixes(d) : d \in empty_dirs},
     files |-> files]

\* src/f.py with the given imports
FFile(content) == (SrcDir \o <<Py(n_f)>>) :> content

UFiles(kind) ==
    CASE kind = "none" -> <<>>
      [] kind = "plain" -> (ProjectRoot \o <<Py(n_u)>>) :> <<>>
      [] kind = "imports_v" ->
           ((ProjectRoot \o <<Py(n_u)>>) :> <<Mod(<<n_v>>)>>)
           @@ ((ProjectRoot \o <<Py(n_v)>>) :> <<>>)

LDir == ProjectRoot \o <<D(n_l)>>

LFiles(kind) ==
    LET plain == (LDir \o <<Py(n_u)>>) :> <<Mod(<<n_os>>)>>
    IN CASE kind = "none" -> <<>>
         [] kind = "plain" -> plain
         [] kind = "init" -> plain @@ ((LDir \o <<InitPy>>) :> <<Mod(<<n_sys>>)>>)
         [] kind = "ss" -> plain @@ ((LDir \o <<D(n_SS), Py(n_x)>>) :> <<>>)
         [] kind = "sub" ->
              plain @@ ((LDir \o <<InitPy>>) :> <<Mod(<<n_sys>>)>>)
                    @@ ((LDir \o <<D(n_sub), Py(n_y)>>) :> <<>>)

EggDir == SrcDir \o <<[stem |-> n_k, ext |-> EggExt]>>
EggFiles == (EggDir \o <<D(<<"P", "K", "G">>)>>) :> <<>>

PreFiles(kind) ==
    CASE kind = "own_l" -> (SrcDir \o <<D(n_l), Py(n_w)>>) :> <<>>
      [] kind = "own_l_data" -> (SrcDir \o <<D(n_l), D(n_w)>>) :> <<>>
      [] kind = "egg" -> EggFiles
      [] kind = "l_file" -> (SrcDir \o <<D(n_l)>>) :> <<>>   \* a regular file src/l
      [] OTHER -> <<>>

PreDirs(kind) == IF kind = "empty" THEN {SrcDir \o <<D(n_e)>>} ELSE {}

FContents ==
    { <<Mod(<<n_u>>)>>, <<Mod(<<n_l, n_u>>)>>, <<Mod(<<n_u>>), Mod(<<n_l, n_u>>)>>,
      <<Mod(<<n_os>>), Mod(<<n_requests>>), Mod(<<n_zz>>)>> }

Imports(content, parts) == \E i \in 1..Len(content) : content[i].parts = parts

\* the combinations in which every file of the tree matters to some import
Scenarios ==
    {sc \in [f : FContents, u : {"none", "plain", "imports_v"},
             l : {"none", "plain", "init", "ss", "sub"},
             pre : {"none", "own_l", "own_l_data", "empty", "egg"}] :
        /\ (sc.u # "none") = Imports(sc.f, <<n_u>>)
        /\ (sc.l # "none") = Imports(sc.f, <<n_l, n_u>>)
        /\ sc.pre \in {"own_l", "own_l_data"} => sc.l # "none"
        /\ Len(sc.f) = 2 => sc.pre = "none" /\ sc.l \in {"plain", "init"}}

TreeOf(sc) ==
    MkTree(FFile(sc.f) @@ UFiles(sc.u) @@ LFiles(sc.l) @@ PreFiles(sc.pre),
           {SrcDir} \cup PreDirs(sc.pre))

\* f.py imports l.sub.y and u; src/l may be a regular file, which is then
\* in the way of the target src/l/sub/y.py
DeepContents ==
    { <<Mod(<<n_l, n_sub, n_y>>), Mod(<<n_u>>)>>, <<Mod(<<n_u>>), Mod(<<n_l, n_sub, n_y>>)>> }

DeepScenarios == [f : DeepContents, u : {"plain"}, l : {"sub"}, pre : {"none", "l_file"}]

InitialTrees == {TreeOf(sc) : sc \in Scenarios \cup DeepScenarios}

----------------------------------------------------------------------------
(* The staging manager as a state machine                                  *)

NoImport == [module_name |-> Mod(<<>>), line_number |-> 0, file_path |-> NoPath]
NoClass == [classification |-> "none", resolved_path |-> NoPath]

\* main() has not been called, _is_subfolder_build() has not been asked
NoArgs ==
    [project_root |-> NoPath, src_dir |-> NoPath, version |-> FALSE,
     analyze_only |-> FALSE, is_subfolder |-> FALSE, returned |-> "none",
     asked |-> FALSE, is_subfolder_build |-> FALSE]

\* SubfolderBuildConfig.__init__: nothing created, nothing backed up
NoConfig ==
    [version |-> FALSE, temp_pyproject |-> NoPath, original_pyproject_backup |-> NoPath,
     original_pyproject_path |-> NoPath, temp_init_created |-> FALSE,
     temp_readme |-> NoPath, original_readme_backup |-> NoPath,
     used_subfolder_pyproject |-> FALSE]

\* hist records the tree and the lists after each operation of a caller;
\* failed: the paths a cleanup could not remove
Snapshot(op, t, cf, cd, failed) ==
    [op |-> op, fs |-> t, cf |-> cf, cd |-> cd, failed |-> failed]

Init ==
    /\ fs \in InitialTrees
    /\ copied_files = <<>>
    /\ copied_dirs = <<>>
    /\ deps = <<>>
    /\ pc = "idle"
    /\ phase = 0
    /\ ret = "idle"
    /\ atCleanup = [fs |-> fs, cf |-> <<>>, cd |-> <<>>]
    /\ rmFailed = {}
    /\ clRaised = FALSE
    /\ exc = FALSE
    /\ trace = <<>>
    /\ modified_import_files = <<>>
    /\ subfolder_config = NoConfig
    /\ cli = NoArgs
    /\ extracted = [file_path |-> NoPath, result |-> <<>>]
    /\ listing = [directory |-> NoPath, result |-> {}]
    /\ publish = <<>>
    /\ hist = <<Snapshot("init", fs, <<>>, <<>>, {})>>
    /\ scanOrder \in {"files", "dirs"}
    /\ imp = NoImport
    /\ cls = NoClass
    /\ config = NoConfig

Staging == [fs |-> fs, cf |-> copied_files, cd |-> copied_dirs]

Reverse(q) == [i \in 1..Len(q) |-> q[Len(q) + 1 - i]]

\* rglob yields the files in an order the file system chooses: one order
\* and its reverse are explored
PythonFileLists ==
    LET one == SeqOfSet(FindAllPythonFiles(fs, SrcDir)) IN {one, Reverse(one)}

\* the operations of the caller so far, and the removals from outside
Calls == Cardinality({i \in 1..Len(hist) : hist[i].op \notin {"init", "external_remove"}})
Removals == Cardinality({i \in 1..Len(hist) : hist[i].op = "external_remove"})

IdleCall == pc = "idle" /\ Calls < MaxOps

\* a caller calls prepare_build()
PrepareBuild ==
    /\ IdleCall
    /\ ~IsSubfolderBuild(SrcDir, ProjectRoot)
    /\ \E python_files \in PythonFileLists :
       \E r \in {PrepareBuildResult(Staging, python_files, scanOrder)} :
         /\ fs' = r.st.fs
         /\ copied_files' = r.st.cf
         /\ copied_dirs' = r.st.cd
         /\ deps' = IF r.raised THEN deps ELSE r.deps
         /\ hist' = Append(hist, Snapshot(IF r.copy_raised THEN "prepare_build_copy_raised"
                                          ELSE IF r.raised THEN "prepare_build_raised"
                                          ELSE "prepare_build",
                                          r.st.fs, r.st.cf, r.st.cd, {}))
    /\ UNCHANGED <<modified_import_files, subfolder_config, cli, extracted,
                   listing, publish, config, pc, phase, ret, atCleanup,
                   rmFailed, clRaised, exc, trace, scanOrder, imp, cls>>

\* a caller hands every entry of the list prepare_build returned to
\* _copy_dependency once more
CopyDependencies ==
    /\ IdleCall
    /\ deps # <<>>
    /\ \E st \in {CopyAll(Staging, deps, scanOrder, SrcDir)} :
         /\ fs' = st.fs
         /\ copied_files' = st.cf
         /\ copied_dirs' = st.cd
         /\ hist' = Append(hist, Snapshot(IF CopyAllRaises(Staging, deps, scanOrder, SrcDir)
                                          THEN "copy_dependencies_raised"
                                          ELSE "copy_dependencies",
                                          st.fs, st.cf, st.cd, {}))
    /\ UNCHANGED <<modified_import_files, subfolder_config, cli, extracted,
                   listing, publish, config, deps, pc, phase, ret, atCleanup,
                   rmFailed, clRaised, exc, trace, scanOrder, imp, cls>>

Tracked == Range(copied_files) \cup Range(copied_dirs)

\* something outside the program removes a tracked path
ExternalRemove ==
    /\ IdleCall
    /\ Removals < MaxExternalRemovals
    /\ \E q \in Tracked :
         /\ Exists(fs, q)
         /\ fs' = RmTree(fs, q)
         /\ hist' = Append(hist, Snapshot("external_remove", fs', copied_files, copied_dirs, {}))
    /\ UNCHANGED <<modified_import_files, subfolder_config, cli, extracted,
                   listing, publish, config, copied_files, copied_dirs, deps,
                   pc, phase, ret, atCleanup, rmFailed, clRaised, exc, trace,
                   scanOrder, imp, cls>>

\* entering cleanup(), from a caller or from run_build's finally
EnterCleanup(from) ==
    /\ phase' = 1
    /\ ret' = from
    /\ atCleanup' = [fs |-> fs, cf |-> copied_files, cd |-> copied_dirs]
    /\ rmFailed' = {}
    /\ clRaised' = FALSE

\* a caller calls cleanup()
Cleanup ==
    /\ IdleCall
    /\ pc' = "cleanup"
    /\ EnterCleanup("idle")
    /\ UNCHANGED <<modified_import_files, subfolder_config, cli, extracted,
                   listing, publish, config, fs, copied_files, copied_dirs,
                   deps, exc, trace, hist, scanOrder, imp, cls>>

FailureSets(step) ==
    LET over == CASE step = "dirs" -> {q \in Range(copied_dirs) : Exists(fs, q)}
                  [] step = "files" -> {q \in Range(copied_files) : Exists(fs, q)}
                  [] OTHER -> {}
    IN {B \in SUBSET over : Cardinality(B) <= MaxRemovalFailures}

\* cleanup() runs its next step, and returns after the last one
CleanupRun ==
    /\ pc = "cleanup"
    /\ \E bad \in FailureSets(CleanupSteps[phase]) :
       \E c \in {CleanupStep(CleanupSteps[phase],
                              [fs |-> fs, cf |-> copied_files, cd |-> copied_dirs,
                               failed |-> rmFailed, raised |-> clRaised], bad)} :
         LET over == c.raised \/ phase = Len(CleanupSteps)
         IN /\ fs' = c.fs
            /\ copied_files' = c.cf
            /\ copied_dirs' = c.cd
            /\ rmFailed' = c.failed
            /\ clRaised' = c.raised
            /\ phase' = IF over THEN 0 ELSE phase + 1
            /\ pc' = IF ~over THEN "cleanup"
                     ELSE IF ret = "idle" THEN "idle"
                     ELSE IF ret = "run_build" THEN "rb_return" ELSE "bp_return"
            /\ exc' = (exc \/ (ret # "idle" /\ c.raised))
            /\ hist' = IF over /\ ret = "idle"
                       THEN Append(hist, Snapshot(IF c.raised THEN "cleanup_raised"
                                                  ELSE "cleanup",
                                                  c.fs, c.cf, c.cd, c.failed))
                       ELSE hist
    /\ UNCHANGED <<modified_import_files, subfolder_config, cli, extracted,
                   listing, publish, config, deps, ret, atCleanup, trace,
                   scanOrder, imp, cls>>

\* a caller calls run_build(build_command)
RunBuild ==
    /\ IdleCall
    /\ pc' = "rb_prepare"
    /\ trace' = <<>>
    /\ exc' = FALSE
    /\ UNCHANGED <<modified_import_files, subfolder_config, cli, extracted,
                   listing, publish, config, fs, copied_files, copied_dirs,
                   deps, phase, ret, atCleanup, rmFailed, clRaised, hist,
                   scanOrder, imp, cls>>

\* run_build: self.prepare_build(...).  It raises when a file cannot be
\* read: in find_external_dependencies (before any copy) or in
\* _report_ambiguous_imports (after the copies); fail is where the file
\* system refuses a read
RunBuildPrepare ==
    /\ pc = "rb_prepare"
    /\ \E fail \in {"none", "find", "report"} :
       \E python_files \in PythonFileLists :
       \E r \in {IF fail = "find"
                 THEN [st |-> Staging, deps |-> <<>>, copy_raised |-> FALSE, raised |-> TRUE]
                 ELSE PrepareBuildResult(Staging, python_files, scanOrder)} :
         LET raised == fail # "none" \/ r.raised
         IN /\ fs' = r.st.fs
            /\ copied_files' = r.st.cf
            /\ copied_dirs' = r.st.cd
            /\ exc' = raised
            /\ trace' = Append(trace, IF raised THEN "prepare_raised" ELSE "prepare")
            /\ pc' = RunBuildNext("rb_prepare", raised)
    /\ UNCHANGED <<modified_import_files, subfolder_config, cli, extracted,
                   listing, publish, config, deps, phase, ret, atCleanup,
                   rmFailed, clRaised, hist, scanOrder, imp, cls>>

\* run_build: build_command().  The command is opaque: it returns or
\* raises, and it may leave an .egg-info directory in the source directory
RunBuildCommand ==
    /\ pc = "rb_build"
    /\ \E raises \in BOOLEAN, egg \in BOOLEAN :
         /\ fs' = IF egg THEN MkTree(EggFiles @@ fs.files, fs.dirs) ELSE fs
         /\ exc' = raises
         /\ trace' = Append(trace, IF raises THEN "build_raised" ELSE "build")
         /\ pc' = RunBuildNext("rb_build", raises)
    /\ UNCHANGED <<modified_import_files, subfolder_config, cli, extracted,
                   listing, publish, config, copied_files, copied_dirs, deps,
                   phase, ret, atCleanup, rmFailed, clRaised, hist, scanOrder,
                   imp, cls>>

\* run_build: finally: self.cleanup()
RunBuildFinally ==
    /\ pc = "rb_finally"
    /\ EnterCleanup("run_build")
    /\ pc' = RunBuildNext("rb_finally", exc)
    /\ trace' = Append(trace, "cleanup")
    /\ UNCHANGED <<modified_import_files, subfolder_config, cli, extracted,
                   listing, publish, config, fs, copied_files, copied_dirs,
                   deps, exc, hist, scanOrder, imp, cls>>

\* run_build returns, or lets the pending exception propagate: to the
\* caller, or into build_and_publish
RunBuildReturn ==
    /\ pc = "rb_return"
    /\ pc' = IF publish = <<>> THEN "idle" ELSE IF exc THEN "bp_finally" ELSE "bp_publish"
    /\ publish' = IF publish = <<>> THEN publish ELSE publish \o trace
    /\ hist' = Append(hist, Snapshot(IF exc THEN "run_build_raised" ELSE "run_build",
                                     fs, copied_files, copied_dirs, rmFailed))
    /\ UNCHANGED <<modified_import_files, subfolder_config, cli, extracted,
                   listing, config, fs, copied_files, copied_dirs, deps,
                   phase, ret, atCleanup, rmFailed, clRaised, exc, trace,
                   scanOrder, imp, cls>>

\* a caller calls build_and_publish(build_command, ...): the version is set
\* when one is given and the build is not a subfolder build, then
\* self.run_build(build_command, ...) is entered
BuildAndPublish ==
    /\ IdleCall
    /\ \E version \in BOOLEAN :
         publish' = IF version /\ ~IsSubfolderBuild(SrcDir, ProjectRoot)
                    THEN <<"build_and_publish", "set_version">>
                    ELSE <<"build_and_publish">>
    /\ pc' = "rb_prepare"
    /\ trace' = <<>>
    /\ exc' = FALSE
    /\ UNCHANGED <<modified_import_files, subfolder_config, cli, extracted,
                   listing, config, fs, copied_files, copied_dirs, deps,
                   phase, ret, atCleanup, rmFailed, clRaised, hist, scanOrder,
                   imp, cls>>

\* build_and_publish after run_build has returned: `if repository:`
\* publisher.publish(...), which returns or raises
Publish ==
    /\ pc = "bp_publish"
    /\ \E repository \in BOOLEAN, raises \in BOOLEAN :
         /\ raises => repository
         /\ publish' = IF ~repository THEN publish
                       ELSE Append(publish, IF raises THEN "publish_raised" ELSE "publish")
         /\ exc' = raises
    /\ pc' = "bp_finally"
    /\ UNCHANGED <<modified_import_files, subfolder_config, cli, extracted,
                   listing, config, fs, copied_files, copied_dirs, deps,
                   phase, ret, atCleanup, rmFailed, clRaised, trace, hist,
                   scanOrder, imp, cls>>

\* build_and_publish: finally: the versioning is restored when a version
\* was set and restore_versioning is true, and cleanup() is called when a
\* tracking list is not empty
BuildAndPublishFinally ==
    /\ pc = "bp_finally"
    /\ \E restore_versioning \in BOOLEAN :
       \E restored \in {IF restore_versioning /\ "set_version" \in Range(publish)
                        THEN Append(publish, "restore_versioning") ELSE publish} :
         IF copied_files # <<>> \/ copied_dirs # <<>>
         THEN /\ publish' = Append(restored, "cleanup")
              /\ pc' = "cleanup"
              /\ EnterCleanup("build_and_publish")
         ELSE /\ publish' = restored
              /\ pc' = "bp_return"
              /\ UNCHANGED <<phase, ret, atCleanup, rmFailed, clRaised>>
    /\ UNCHANGED <<modified_import_files, subfolder_config, cli, extracted,
                   listing, config, fs, copied_files, copied_dirs, deps, exc,
                   trace, hist, scanOrder, imp, cls>>

\* build_and_publish returns, or lets the pending exception propagate
BuildAndPublishReturn ==
    /\ pc = "bp_return"
    /\ pc' = "idle"
    /\ publish' = <<>>
    /\ hist' = Append(hist, Snapshot(IF exc THEN "build_and_publish_raised"
                                     ELSE "build_and_publish",
                                     fs, copied_files, copied_dirs, rmFailed))
    /\ UNCHANGED <<modified_import_files, subfolder_config, cli, extracted,
                   listing, config, fs, copied_files, copied_dirs, deps,
                   phase, ret, atCleanup, rmFailed, clRaised, exc, trace,
                   scanOrder, imp, cls>>

Next ==
    \/ PrepareBuild
    \/ CopyDependencies
    \/ ExternalRemove
    \/ Cleanup
    \/ CleanupRun
    \/ RunBuild
    \/ RunBuildPrepare
    \/ RunBuildCommand
    \/ RunBuildFinally
    \/ RunBuildReturn
    \/ BuildAndPublish
    \/ Publish
    \/ BuildAndPublishFinally
    \/ BuildAndPublishReturn

Spec == Init /\ [][Next]_vars

----------------------------------------------------------------------------
(* The analyzer alone: classify_import on fresh ImportInfo objects and on  *)
(* the ones extract_imports returns                                        *)

MaxLevel == 3               \* leading dots of a module name

n_pkg == <<"p", "k", "g">>
n_o == <<"o">>
n_a == <<"a">>
n_sib == <<"s", "i", "b">>

PkgDir == SrcDir \o <<D(n_pkg)>>
OutDir == ProjectRoot \o <<D(n_o)>>

\* src/f.py, src/pkg/{a,sib}.py and, outside the source directory,
\* o/{a,sib}.py; a.py holds `from .sib import x`
ClassifyBase ==
    ((SrcDir \o <<Py(n_f)>>) :> <<Mod(<<n_os>>), Rel(1, <<n_x>>), Rel(1, <<>>), Mod(<<n_x>>)>>)
    @@ ((PkgDir \o <<Py(n_a)>>) :> <<Rel(1, <<n_sib>>)>>)
    @@ ((PkgDir \o <<Py(n_sib)>>) :> <<>>)
    @@ ((OutDir \o <<Py(n_a)>>) :> <<Rel(1, <<n_sib>>)>>)
    @@ ((OutDir \o <<Py(n_sib)>>) :> <<>>)

\* files that may or may not be there: src/os.py, src/x.py, x.py in the
\* project root and x.py above the project root
ClassifyOptional ==
    { SrcDir \o <<Py(n_os)>>, SrcDir \o <<Py(n_x)>>, ProjectRoot \o <<Py(n_x)>>,
      <<Py(n_x)>> }

ClassifyTrees ==
    {MkTree([q \in S |-> <<>>] @@ ClassifyBase, {}) : S \in SUBSET ClassifyOptional}

ModuleParts == { <<n_os>>, <<n_os, n_x>>, <<n_x>>, <<n_sib>>, <<n_requests>>, <<n_zz>> }

\* ImportInfo(module_name=..., file_path=...) as a caller constructs it
FreshImportInfos(t) ==
    [module_name : [level : 0..MaxLevel, parts : ModuleParts],
     line_number : {0},
     file_path : {NoPath} \cup RglobPy(t, ProjectRoot)]

ClsInit ==
    /\ fs \in ClassifyTrees
    /\ copied_files = <<>>
    /\ copied_dirs = <<>>
    /\ deps = <<>>
    /\ pc = "idle"
    /\ phase = 0
    /\ ret = "idle"
    /\ atCleanup = [fs |-> fs, cf |-> <<>>, cd |-> <<>>]
    /\ rmFailed = {}
    /\ clRaised = FALSE
    /\ exc = FALSE
    /\ trace = <<>>
    /\ modified_import_files = <<>>
    /\ subfolder_config = NoConfig
    /\ cli = NoArgs
    /\ extracted = [file_path |-> NoPath, result |-> <<>>]
    /\ listing = [directory |-> NoPath, result |-> {}]
    /\ publish = <<>>
    /\ hist = <<Snapshot("init", fs, <<>>, <<>>, {})>>
    /\ scanOrder = "files"
    /\ imp = NoImport
    /\ cls = NoClass
    /\ config = NoConfig

\* classify_import(info, src_dir) on a fresh ImportInfo
ClassifyFresh ==
    /\ \E info \in FreshImportInfos(fs) :
         /\ imp' = info
         /\ cls' = ClassifyImport(fs, info, SrcDir, ProjectRoot)
    /\ UNCHANGED <<modified_import_files, subfolder_config, cli, extracted,
                   listing, publish, config, fs, copied_files, copied_dirs,
                   deps, pc, phase, ret, atCleanup, rmFailed, clRaised, exc,
                   trace, hist, scanOrder>>

\* for info in extract_imports(file): classify_import(info, src_dir)
ExtractAndClassify ==
    /\ \E file \in RglobPy(fs, ProjectRoot) :
       \E k \in DOMAIN ExtractImports(fs, file) :
         /\ imp' = ExtractImports(fs, file)[k]
         /\ cls' = ClassifyImport(fs, ExtractImports(fs, file)[k], SrcDir, ProjectRoot)
    /\ UNCHANGED <<modified_import_files, subfolder_config, cli, extracted,
                   listing, publish, config, fs, copied_files, copied_dirs,
                   deps, pc, phase, ret, atCleanup, rmFailed, clRaised, exc,
                   trace, hist, scanOrder>>

ClsNext ==
    \/ ClassifyFresh
    \/ ExtractAndClassify

SpecClassify == ClsInit /\ [][ClsNext]_vars

----------------------------------------------------------------------------
(* The finder alone: ExternalDependencyFinder(project_root, src_dir,       *)
(* exclude_patterns).find_external_dependencies, then _copy_dependency on  *)
(* each entry and classify_import on the import that produced it.  The     *)
(* source directory lies two levels below the project root, as             *)
(* folder_structure/subfolder_to_build does in the tests.                  *)

n_b == <<"b">>
n_q == <<"q">>
n_z == <<"z">>
n_other == <<"o", "t", "h", "e", "r">>
n_tmp_x == <<"t", "m", "p", "_", "x">>

FindSrcDir == ProjectRoot \o <<D(n_a), D(n_b)>>

\* a/b/f.py with its imports, and the files outside a/b that may or may
\* not be there
FindCases ==
    { [f |-> <<Mod(<<n_os>>), Mod(<<n_requests>>), Mod(<<n_zz>>), Mod(<<n_k>>)>>,
       opt |-> {ProjectRoot \o <<Py(n_u)>>}],
      [f |-> <<Mod(<<n_other, n_x>>), Mod(<<n_other, n_y>>)>>,
       opt |-> {ProjectRoot \o <<D(n_other), Py(n_x)>>,
                ProjectRoot \o <<D(n_a), D(n_other), Py(n_y)>>,
                ProjectRoot \o <<D(n_other), InitPy>>}],
      [f |-> <<Mod(<<n_x, n_other>>), Mod(<<n_u>>)>>,
       opt |-> {ProjectRoot \o <<D(n_a), D(n_x), D(n_other), InitPy>>,
                ProjectRoot \o <<D(n_x), D(n_other), InitPy>>,
                ProjectRoot \o <<Py(n_u)>>}],
      [f |-> <<Mod(<<n_l, n_u>>), Mod(<<n_l>>), Mod(<<n_l, n_sub, n_y>>)>>,
       opt |-> {LDir \o <<Py(n_u)>>, LDir \o <<InitPy>>,
                LDir \o <<D(n_sub), Py(n_y)>>}],
      [f |-> <<Mod(<<n_SS, n_x>>), Mod(<<n_l, n_u>>), Mod(<<n_tmp_x>>)>>,
       opt |-> {ProjectRoot \o <<D(n_SS), Py(n_x)>>, LDir \o <<Py(n_u)>>,
                LDir \o <<D(n_SS), Py(n_z)>>, LDir \o <<D(n_sub), Py(n_tmp_x)>>,
                ProjectRoot \o <<Py(n_tmp_x)>>}],
      [f |-> <<Mod(<<n_q, n_y, n_u>>), Mod(<<n_u>>), Mod(<<n_q, n_u>>)>>,
       opt |-> {ProjectRoot \o <<Py(n_u)>>, ProjectRoot \o <<D(n_a), Py(n_u)>>,
                FindSrcDir \o <<D(n_q), InitPy>>}],
      [f |-> <<Mod(<<n_src, n_u>>), Mod(<<n_k>>)>>,
       opt |-> {ProjectRoot \o <<D(n_src), Py(n_u)>>,
                ProjectRoot \o <<D(n_src), InitPy>>}] }

FindTrees ==
    UNION { { MkTree(((FindSrcDir \o <<Py(n_f)>>) :> c.f)
                     @@ ((FindSrcDir \o <<Py(n_k)>>) :> <<>>)
                     @@ [q \in S |-> <<>>], {})
              : S \in SUBSET c.opt }
            : c \in FindCases }

FindInit ==
    /\ fs \in FindTrees
    /\ copied_files = <<>>
    /\ copied_dirs = <<>>
    /\ deps = <<>>
    /\ pc = "find"
    /\ phase = 0
    /\ ret = "idle"
    /\ atCleanup = [fs |-> fs, cf |-> <<>>, cd |-> <<>>]
    /\ rmFailed = {}
    /\ clRaised = FALSE
    /\ exc = FALSE
    /\ trace = <<>>
    /\ modified_import_files = <<>>
    /\ subfolder_config = NoConfig
    /\ cli = NoArgs
    /\ extracted = [file_path |-> NoPath, result |-> <<>>]
    /\ listing = [directory |-> NoPath, result |-> {}]
    /\ publish = <<>>
    /\ hist = <<Snapshot("init", fs, <<>>, <<>>, {})>>
    /\ scanOrder \in {"files", "dirs"}
    /\ imp = NoImport
    /\ cls = NoClass
    /\ config = NoConfig

\* deps = finder.find_external_dependencies(python_files)
FindDependencies ==
    /\ pc = "find"
    /\ \E one \in {SeqOfSet(FindAllPythonFiles(fs, FindSrcDir))} :
       \E python_files \in {one, Reverse(one)} :
         deps' = FindExternalDependencies(fs, python_files, FindSrcDir, ProjectRoot)
    /\ pc' = "copy"
    /\ phase' = 1
    /\ UNCHANGED <<modified_import_files, subfolder_config, cli, extracted,
                   listing, publish, config, fs, copied_files, copied_dirs,
                   ret, atCleanup, rmFailed, clRaised, exc, trace, hist,
                   scanOrder, imp, cls>>

\* manager._copy_dependency(deps[phase]): the entries are copied in order
CopyNextDependency ==
    /\ pc = "copy"
    /\ phase \in 1..Len(deps)
    /\ \E st \in {CopyDependency(Staging, deps[phase], scanOrder, FindSrcDir)} :
         /\ fs' = st.fs
         /\ copied_files' = st.cf
         /\ copied_dirs' = st.cd
         /\ hist' = Append(hist, Snapshot("_copy_dependency", st.fs, st.cf, st.cd, {}))
    /\ phase' = phase + 1
    /\ imp' = NoImport
    /\ cls' = NoClass
    /\ UNCHANGED <<modified_import_files, subfolder_config, cli, extracted,
                   listing, publish, config, deps, pc, ret, atCleanup,
                   rmFailed, clRaised, exc, trace, scanOrder>>

\* classify_import on a fresh ImportInfo for the import that produced the
\* entry copied last: the same module name, importing file and src_dir
ClassifyCopied ==
    /\ pc = "copy"
    /\ phase > 1
    /\ cls = NoClass
    /\ \E info \in {[module_name |-> deps[phase - 1].import_name, line_number |-> 0,
                      file_path |-> deps[phase - 1].file_path]} :
         /\ imp' = info
         /\ cls' = ClassifyImport(fs, info, FindSrcDir, ProjectRoot)
    /\ UNCHANGED <<modified_import_files, subfolder_config, cli, extracted,
                   listing, publish, config, fs, copied_files, copied_dirs,
                   deps, pc, phase, ret, atCleanup, rmFailed, clRaised, exc,
                   trace, hist, scanOrder>>

FindNext ==
    \/ FindDependencies
    \/ CopyNextDependency
    \/ ClassifyCopied

SpecFind == FindInit /\ [][FindNext]_vars

----------------------------------------------------------------------------
(* subfolder_build.py: SubfolderBuildConfig(project_root, src_dir,         *)
(* version=...), create_temp_pyproject, restore and the context-manager    *)
(* exit.  A pyproject.toml or README is the sequence of its lines.         *)

MaxConfigCalls == 4         \* calls on the SubfolderBuildConfig objects of one project root

\* the index of the last "." of a name, or 0
LastDot(s) ==
    LET I == {i \in 1..Len(s) : s[i] = "."}
    IN IF I = {} THEN 0 ELSE CHOOSE i \in I : \A j \in I : j <= i

\* a name from its characters, split as PurePath.stem and PurePath.suffix
NameOf(s) ==
    LET i == LastDot(s)
    IN IF i > 1 /\ i < Len(s)
       THEN [stem |-> SubSeq(s, 1, i - 1), ext |-> SubSeq(s, i, Len(s))]
       ELSE [stem |-> s, ext |-> <<>>]

PyprojectToml == NameOf(<<"p", "y", "p", "r", "o", "j", "e", "c", "t", ".", "t", "o", "m", "l">>)
PyprojectTemp == NameOf(<<"p", "y", "p", "r", "o", "j", "e", "c", "t", ".", "t", "o", "m", "l", ".", "t", "e", "m", "p">>)
PyprojectOriginal == NameOf(<<"p", "y", "p", "r", "o", "j", "e", "c", "t", ".", "t", "o", "m", "l", ".", "o", "r", "i", "g", "i", "n", "a", "l">>)
ReadmeMd == NameOf(<<"R", "E", "A", "D", "M", "E", ".", "m", "d">>)
ReadmeRst == NameOf(<<"R", "E", "A", "D", "M", "E", ".", "r", "s", "t">>)
ReadmeTxt == NameOf(<<"R", "E", "A", "D", "M", "E", ".", "t", "x", "t">>)
ReadmePlain == NameOf(<<"R", "E", "A", "D", "M", "E">>)

\* readme_names
README_NAMES == <<ReadmeMd, ReadmeRst, ReadmeTxt, ReadmePlain>>

\* f"{project_readme.name}.backup"
BackupName(n) == NameOf(FullName(n) \o <<".", "b", "a", "c", "k", "u", "p">>)

\* the first of readme_names that exists in dir, or NoPath
FirstReadme(t, dir) ==
    LET I == {i \in 1..Len(README_NAMES) : Exists(t, dir \o <<README_NAMES[i]>>)}
    IN IF I = {} THEN NoPath
       ELSE dir \o <<README_NAMES[CHOOSE i \in I : \A j \in I : i <= j]>>

\* Path.rename onto a file path
Rename(t, src, dst) == Unlink(WriteFile(t, dst, t.files[src]), src)

SubfolderDir == ProjectRoot \o <<D(n_a), D(n_b)>>

TempInitContent == <<"# Temporary __init__.py for build">>
MinimalReadme == <<"# b">>
BuildSystemLines ==
    <<"[build-system]", "requires = [hatchling]", "build-backend = hatchling.build", "">>
HatchLines ==
    <<"", "[tool.hatch.build.targets.wheel]", "packages = [a/b]",
      "", "[tool.hatch.build]", "paths-exclude = [...]">>

RootPyprojectContent == <<"[project]", "name = root", "version = 0">>
SubPyprojectContent == <<"[project]", "name = sub", "version = 2">>

\* _adjust_subfolder_pyproject_packages_path on a file without
\* [build-system] and without hatch sections
AdjustSubfolderPyprojectPackagesPath(content) ==
    BuildSystemLines \o content \o HatchLines

\* _modify_pyproject_string on such a file: the name and the version of
\* [project] are replaced by package_name and version
ModifyPyprojectString(content) ==
    BuildSystemLines
    \o [i \in 1..Len(content) |->
           IF content[i] \in {"name = root", "name = sub"} THEN "name = b"
           ELSE IF content[i] \in {"version = 0", "version = 2"} THEN "version = 1"
           ELSE content[i]]
    \o HatchLines

\* A configuration state is [fs, config].

\* create_temp_pyproject: the __init__.py of src_dir
EnsureTempInit(s, src_dir) ==
    IF Exists(s.fs, src_dir \o <<InitPy>>)
    THEN [s EXCEPT !.config.temp_init_created = FALSE]
    ELSE [fs |-> WriteFile(s.fs, src_dir \o <<InitPy>>, TempInitContent),
          config |-> [s.config EXCEPT !.temp_init_created = TRUE]]

\* create_temp_pyproject: the root pyproject.toml is moved to
\* pyproject.toml.original, over a backup that is already there
MoveOriginalAside(s, project_root) ==
    LET original == project_root \o <<PyprojectToml>>
        backup_path == project_root \o <<PyprojectOriginal>>
    IN The({[fs |-> Rename(t1, original, backup_path),
             config |-> [s.config EXCEPT !.original_pyproject_backup = backup_path]]
            : t1 \in {IF Exists(s.fs, backup_path) THEN Unlink(s.fs, backup_path)
                       ELSE s.fs}})

\* create_temp_pyproject: pyproject.toml.temp is written and renamed to
\* pyproject.toml
InstallTemp(s, content, project_root) ==
    LET original == project_root \o <<PyprojectToml>>
        temp_pyproject_path == project_root \o <<PyprojectTemp>>
    IN The({[fs |-> Rename(t1, temp_pyproject_path, original),
             config |-> [s.config EXCEPT !.temp_pyproject = original]]
            : t1 \in {WriteFile(s.fs, temp_pyproject_path, content)}})

HandleReadmeCopy(s, subfolder_readme, project_root) ==
    IF subfolder_readme # NoPath
    THEN [fs |-> Copy2(s.fs, subfolder_readme, project_root \o <<Last(subfolder_readme)>>),
          config |-> [s.config EXCEPT
                         !.temp_readme = project_root \o <<Last(subfolder_readme)>>]]
    ELSE [fs |-> WriteFile(s.fs, project_root \o <<ReadmeMd>>, MinimalReadme),
          config |-> [s.config EXCEPT !.temp_readme = project_root \o <<ReadmeMd>>]]

\* _handle_readme
HandleReadme(s, src_dir, project_root) ==
    The({ HandleReadmeCopy(
              IF project_readme # NoPath
              THEN [fs |-> Copy2(s.fs, project_readme,
                                 project_root \o <<BackupName(Last(project_readme))>>),
                    config |-> [s.config EXCEPT !.original_readme_backup =
                                   project_root \o <<BackupName(Last(project_readme))>>]]
              ELSE s,
              subfolder_readme, project_root)
          : subfolder_readme \in {FirstReadme(s.fs, src_dir)},
            project_readme \in {FirstReadme(s.fs, project_root)} })

\* create_temp_pyproject when src_dir holds a pyproject.toml
CreateFromSubfolder(s, src_dir, project_root) ==
    LET original == project_root \o <<PyprojectToml>>
        adjusted == AdjustSubfolderPyprojectPackagesPath(
                        s.fs.files[src_dir \o <<PyprojectToml>>])
    IN The({ HandleReadme(InstallTemp(s2, adjusted, project_root), src_dir, project_root)
             : s2 \in { The({ IF Exists(s1.fs, original)
                               THEN MoveOriginalAside(s1, project_root) ELSE s1
                               : s1 \in {[s EXCEPT
                                            !.config.used_subfolder_pyproject = TRUE,
                                            !.config.original_pyproject_path = original]} }) } })

\* create_temp_pyproject when the temporary file is made from the root's
CreateFromParent(s, src_dir, project_root) ==
    LET original == project_root \o <<PyprojectToml>>
        modified == ModifyPyprojectString(s.fs.files[original])
    IN The({ HandleReadme(InstallTemp(s2, modified, project_root), src_dir, project_root)
             : s2 \in { MoveOriginalAside(
                            [s EXCEPT !.config.original_pyproject_path = original],
                            project_root) } })

\* create_temp_pyproject: [st, returned], returned one of "raised" (no
\* version), "none" (no root pyproject.toml) and "path"
CreateTempPyprojectResult(s0, src_dir, project_root) ==
    IF ~s0.config.version THEN [st |-> s0, returned |-> "raised"]
    ELSE The({
        IF Exists(s.fs, src_dir \o <<PyprojectToml>>)
        THEN [st |-> CreateFromSubfolder(s, src_dir, project_root), returned |-> "path"]
        ELSE IF ~Exists(s.fs, project_root \o <<PyprojectToml>>)
        THEN [st |-> HandleReadme([s EXCEPT !.config.used_subfolder_pyproject = FALSE],
                                  src_dir, project_root),
              returned |-> "none"]
        ELSE [st |-> CreateFromParent([s EXCEPT !.config.used_subfolder_pyproject = FALSE],
                                      src_dir, project_root),
              returned |-> "path"]
        : s \in {EnsureTempInit(s0, src_dir)}})

\* restore: the temporary __init__.py
RestoreInit(s, src_dir) ==
    IF s.config.temp_init_created
    THEN [fs |-> IF Exists(s.fs, src_dir \o <<InitPy>>)
                 THEN Unlink(s.fs, src_dir \o <<InitPy>>) ELSE s.fs,
          config |-> [s.config EXCEPT !.temp_init_created = FALSE]]
    ELSE s

\* restore: the temporary README, after the original was (had_backup) or
\* was not copied back to original_readme_path
RestoreTempReadme(s, had_backup, original_readme_path) ==
    IF s.config.temp_readme # NoPath /\ Exists(s.fs, s.config.temp_readme)
    THEN [fs |-> IF had_backup /\ s.config.temp_readme = original_readme_path
                 THEN s.fs ELSE Unlink(s.fs, s.config.temp_readme),
          config |-> [s.config EXCEPT !.temp_readme = NoPath]]
    ELSE s

\* restore: the README; backup_path.stem names the original
RestoreReadme(s, project_root) ==
    LET backup_path == s.config.original_readme_backup
        had_backup == backup_path # NoPath /\ Exists(s.fs, backup_path)
        original_readme_path == project_root \o <<NameOf(Last(backup_path).stem)>>
    IN IF had_backup
       THEN The({ RestoreTempReadme(
                      [fs |-> Unlink(t1, backup_path),
                       config |-> [s.config EXCEPT !.original_readme_backup = NoPath]],
                      TRUE, original_readme_path)
                  : t1 \in {Copy2(s.fs, backup_path, original_readme_path)} })
       ELSE RestoreTempReadme(s, FALSE, NoPath)

\* restore: the pyproject.toml
RestorePyproject(s) ==
    LET original_pyproject == s.config.original_pyproject_path
        backup == s.config.original_pyproject_backup
    IN IF s.config.temp_pyproject # NoPath /\ original_pyproject # NoPath
       THEN The({
              IF backup # NoPath /\ Exists(t1, backup)
              THEN [fs |-> Rename(t1, backup, original_pyproject),
                    config |-> [s.config EXCEPT !.original_pyproject_backup = NoPath,
                                                !.temp_pyproject = NoPath,
                                                !.original_pyproject_path = NoPath,
                                                !.used_subfolder_pyproject = FALSE]]
              ELSE [fs |-> t1,
                    config |-> [s.config EXCEPT !.temp_pyproject = NoPath,
                                                !.original_pyproject_path = NoPath,
                                                !.used_subfolder_pyproject = FALSE]]
              : t1 \in {IF Exists(s.fs, original_pyproject)
                         THEN Unlink(s.fs, original_pyproject) ELSE s.fs}})
       ELSE s

\* restore
RestoreResult(s0, src_dir, project_root) ==
    The({RestorePyproject(s2)
         : s2 \in {The({RestoreReadme(s1, project_root)
                         : s1 \in {RestoreInit(s0, src_dir)}})}})

\* the root and the subfolder of a project: pyproject.toml, README files
\* and __init__.py may or may not be there
SubfolderOptional ==
    { ProjectRoot \o <<PyprojectToml>>, SubfolderDir \o <<PyprojectToml>>,
      ProjectRoot \o <<ReadmeMd>>, ProjectRoot \o <<ReadmeRst>>,
      ProjectRoot \o <<ReadmePlain>>, SubfolderDir \o <<ReadmeMd>>,
      SubfolderDir \o <<ReadmeRst>>, SubfolderDir \o <<InitPy>> }

\* every file holds its own text
InitialContent(q) ==
    IF q = ProjectRoot \o <<PyprojectToml>> THEN RootPyprojectContent
    ELSE IF q = SubfolderDir \o <<PyprojectToml>> THEN SubPyprojectContent
    ELSE IF q = ProjectRoot \o <<ReadmeMd>> THEN <<"root README.md">>
    ELSE IF q = ProjectRoot \o <<ReadmeRst>> THEN <<"root README.rst">>
    ELSE IF q = ProjectRoot \o <<ReadmePlain>> THEN <<"root README">>
    ELSE IF q = SubfolderDir \o <<ReadmeMd>> THEN <<"sub README.md">>
    ELSE IF q = SubfolderDir \o <<ReadmeRst>> THEN <<"sub README.rst">>
    ELSE <<"own __init__.py">>

SubfolderTrees ==
    { MkTree(((SubfolderDir \o <<Py(n_f)>>) :> <<>>) @@ [q \in S |-> InitialContent(q)], {})
      : S \in {S \in SUBSET SubfolderOptional :
                  ~({SubfolderDir \o <<ReadmeMd>>, SubfolderDir \o <<ReadmeRst>>}
                      \subseteq S)} }

SubInit ==
    /\ fs \in SubfolderTrees
    /\ copied_files = <<>>
    /\ copied_dirs = <<>>
    /\ deps = <<>>
    /\ pc = "config"
    /\ phase = 0
    /\ ret = "idle"
    /\ atCleanup = [fs |-> fs, cf |-> <<>>, cd |-> <<>>]
    /\ rmFailed = {}
    /\ clRaised = FALSE
    /\ exc = FALSE
    /\ trace = <<>>
    /\ modified_import_files = <<>>
    /\ subfolder_config = NoConfig
    /\ cli = NoArgs
    /\ extracted = [file_path |-> NoPath, result |-> <<>>]
    /\ listing = [directory |-> NoPath, result |-> {}]
    /\ publish = <<>>
    /\ hist = <<Snapshot("init", fs, <<>>, <<>>, {})>>
    /\ scanOrder = "files"
    /\ imp = NoImport
    /\ cls = NoClass
    /\ config \in {[NoConfig EXCEPT !.version = v] : v \in BOOLEAN}

ConfigCall == pc = "config" /\ Len(hist) <= MaxConfigCalls

\* config.create_temp_pyproject()
CreateTempPyproject ==
    /\ ConfigCall
    /\ \E r \in {CreateTempPyprojectResult([fs |-> fs, config |-> config],
                                           SubfolderDir, ProjectRoot)} :
         /\ fs' = r.st.fs
         /\ config' = r.st.config
         /\ hist' = Append(hist, Snapshot(IF r.returned = "raised"
                                          THEN "create_temp_pyproject_raised"
                                          ELSE "create_temp_pyproject",
                                          r.st.fs, <<>>, <<>>, {}))
    /\ UNCHANGED <<modified_import_files, subfolder_config, cli, extracted,
                   listing, publish, copied_files, copied_dirs, deps, pc,
                   phase, ret, atCleanup, rmFailed, clRaised, exc, trace,
                   scanOrder, imp, cls>>

\* config.restore()
Restore ==
    /\ ConfigCall
    /\ \E st \in {RestoreResult([fs |-> fs, config |-> config], SubfolderDir, ProjectRoot)} :
         /\ fs' = st.fs
         /\ config' = st.config
         /\ hist' = Append(hist, Snapshot("restore", st.fs, <<>>, <<>>, {}))
    /\ UNCHANGED <<modified_import_files, subfolder_config, cli, extracted,
                   listing, publish, copied_files, copied_dirs, deps, pc,
                   phase, ret, atCleanup, rmFailed, clRaised, exc, trace,
                   scanOrder, imp, cls>>

\* the end of a `with config:` block: __exit__ calls restore
ExitContext ==
    /\ ConfigCall
    /\ \E st \in {RestoreResult([fs |-> fs, config |-> config], SubfolderDir, ProjectRoot)} :
         /\ fs' = st.fs
         /\ config' = st.config
         /\ hist' = Append(hist, Snapshot("__exit__", st.fs, <<>>, <<>>, {}))
    /\ UNCHANGED <<modified_import_files, subfolder_config, cli, extracted,
                   listing, publish, copied_files, copied_dirs, deps, pc,
                   phase, ret, atCleanup, rmFailed, clRaised, exc, trace,
                   scanOrder, imp, cls>>

\* BuildManager(project_root, src_dir).prepare_build(version) for the
\* subfolder: a new SubfolderBuildConfig, which always has a version, takes
\* the place of self.subfolder_config and create_temp_pyproject is called
\* on it; when that returns None, self.subfolder_config is set to None.
\* The files of the subfolder import nothing: no dependency is found or
\* copied and no import is rewritten.
PrepareBuildSubfolder ==
    /\ ConfigCall
    /\ IsSubfolderBuild(SubfolderDir, ProjectRoot)
    /\ \E r \in {CreateTempPyprojectResult(
                      [fs |-> fs, config |-> [NoConfig EXCEPT !.version = TRUE]],
                      SubfolderDir, ProjectRoot)} :
         /\ fs' = r.st.fs
         /\ subfolder_config' = IF r.returned = "none" THEN NoConfig ELSE r.st.config
         /\ hist' = Append(hist, Snapshot("prepare_build", r.st.fs, <<>>, <<>>, {}))
    /\ UNCHANGED <<modified_import_files, cli, extracted, listing, publish,
                   config, copied_files, copied_dirs, deps, pc, phase, ret,
                   atCleanup, rmFailed, clRaised, exc, trace, scanOrder, imp,
                   cls>>

\* BuildManager.cleanup() for the subfolder: `if self.subfolder_config:`
\* restore it, then forget it.  Both tracking lists are empty, and the
\* tree has no .egg-info and no empty directory.
CleanupSubfolder ==
    /\ ConfigCall
    /\ \E st \in {IF subfolder_config = NoConfig
                   THEN [fs |-> fs, config |-> subfolder_config]
                   ELSE RestoreResult([fs |-> fs, config |-> subfolder_config],
                                      SubfolderDir, ProjectRoot)} :
         /\ fs' = st.fs
         /\ hist' = Append(hist, Snapshot("cleanup", st.fs, <<>>, <<>>, {}))
    /\ subfolder_config' = NoConfig
    /\ UNCHANGED <<modified_import_files, cli, extracted, listing, publish,
                   config, copied_files, copied_dirs, deps, pc, phase, ret,
                   atCleanup, rmFailed, clRaised, exc, trace, scanOrder, imp,
                   cls>>

SubNext ==
    \/ CreateTempPyproject
    \/ Restore
    \/ ExitContext
    \/ PrepareBuildSubfolder
    \/ CleanupSubfolder

SpecSubfolder == SubInit /\ [][SubNext]_vars

----------------------------------------------------------------------------
(* Properties of run_build                                                 *)

RunBuildTraces ==
    { <<"prepare", "build", "cleanup">>,
      <<"prepare", "build_raised", "cleanup">>,
      <<"prepare_raised", "cleanup">> }

\* cleanup() has returned and nothing has happened since
CleanupReturned ==
    /\ phase = 0
    /\ \/ pc = "rb_return"
       \/ pc = "idle" /\ hist[Len(hist)].op = "cleanup"

TrackedAtCleanup == Range(atCleanup.cf) \cup Range(atCleanup.cd)

\* C1: run_build stages, then invokes the build command, then unstages: the
\* build command runs only after prepare_build has completed, and on every
\* path out of run_build cleanup has run exactly once, after the other
\* steps, with the exception of prepare_build or of the build command still
\* propagating to the caller.
C1_RunBuildOrder ==
    /\ pc = "rb_build" => trace = <<"prepare">>
    /\ pc = "rb_return" =>
         /\ trace \in RunBuildTraces
         /\ Cardinality({i \in 1..Len(trace) : trace[i] = "cleanup"}) = 1
         /\ exc = (trace[Len(trace) - 1] \in {"prepare_raised", "build_raised"})
         /\ copied_files = <<>> /\ copied_dirs = <<>>

C1_Witness ==
    /\ pc = "rb_return"
    /\ trace = <<"prepare", "build_raised", "cleanup">>
    /\ exc
    /\ atCleanup.cf # <<>>

----------------------------------------------------------------------------
(* Properties of staging and cleanup                                       *)

\* the part of a tree under the source directory
UnderSrc(t) ==
    [dirs |-> {d \in t.dirs : IsRelativeTo(d, SrcDir)},
     files |-> [q \in {f \in DOMAIN t.files : IsRelativeTo(f, SrcDir)} |-> t.files[q]]]

\* C2: prepare_build followed by a cleanup whose removals succeed leaves
\* under the source directory exactly the files (with their content) and
\* directories that were there before prepare_build.
C2_RestoresSourceRoot ==
    \A i \in 1..(Len(hist) - 2) :
        (/\ hist[i + 1].op = "prepare_build"
         /\ hist[i + 2].op = "cleanup"
         /\ hist[i + 2].failed = {})
        => UnderSrc(hist[i + 2].fs) = UnderSrc(hist[i].fs)

\* C3: handing every entry of the list prepare_build staged to
\* _copy_dependency once more leaves the tree as it was after the first
\* pass, and copied_files and copied_dirs as long as they were.
C3_StagingTwice ==
    \A i \in 1..(Len(hist) - 1) :
        (hist[i].op = "prepare_build" /\ hist[i + 1].op = "copy_dependencies")
        => /\ hist[i + 1].fs = hist[i].fs
           /\ Len(hist[i + 1].cf) = Len(hist[i].cf)
           /\ Len(hist[i + 1].cd) = Len(hist[i].cd)

\* C4: a second prepare_build directly after a first leaves the tree as the
\* first left it, and copied_files and copied_dirs no longer than the first
\* left them.
C4_PrepareBuildTwice ==
    \A i \in 1..(Len(hist) - 1) :
        (hist[i].op = "prepare_build" /\ hist[i + 1].op = "prepare_build")
        => /\ hist[i + 1].fs = hist[i].fs
           /\ Len(hist[i + 1].cf) <= Len(hist[i].cf)
           /\ Len(hist[i + 1].cd) <= Len(hist[i].cd)

CleanupAt(step) == pc = "cleanup" /\ CleanupSteps[phase] = step

\* C5: when cleanup starts on the tracked files, every tracked directory
\* whose removal did not fail is gone and no tracked file outside the
\* tracked directories has been removed yet; the lists are cleared only
\* after both loops; and when no removal failed, after cleanup has returned
\* no path that was tracked exists and both lists are empty.
C5_DirsThenFilesThenClear ==
    /\ CleanupAt("files") =>
         /\ \A d \in Range(atCleanup.cd) : Exists(fs, d) => d \in rmFailed
         /\ \A f \in Range(atCleanup.cf) :
              (/\ Exists(atCleanup.fs, f)
               /\ \A d \in Range(atCleanup.cd) : ~IsRelativeTo(f, d))
              => Exists(fs, f)
    /\ (CleanupAt("dirs") \/ CleanupAt("files") \/ CleanupAt("clear")) =>
         /\ copied_files = atCleanup.cf
         /\ copied_dirs = atCleanup.cd
    /\ (CleanupReturned /\ rmFailed = {}) =>
         /\ \A q \in TrackedAtCleanup : ~Exists(fs, q)
         /\ copied_files = <<>>
         /\ copied_dirs = <<>>

C5_Witness ==
    /\ CleanupReturned
    /\ rmFailed = {}
    /\ \E d \in Range(atCleanup.cd) : Exists(atCleanup.fs, d)
    /\ \E f \in Range(atCleanup.cf) :
         /\ Exists(atCleanup.fs, f)
         /\ \A d \in Range(atCleanup.cd) : ~IsRelativeTo(f, d)

\* C6: cleanup lets no exception escape, whether tracked paths are already
\* gone or removals fail: it goes on to the remaining tracked paths, so that
\* after it has returned the only tracked paths left are the ones whose own
\* removal failed, and copied_files and copied_dirs are empty.
C6_CleanupNeverRaises ==
    /\ ~clRaised
    /\ \A i \in 1..Len(hist) : hist[i].op # "cleanup_raised"
    /\ CleanupReturned =>
         /\ \A q \in TrackedAtCleanup : Exists(fs, q) => q \in rmFailed
         /\ copied_files = <<>>
         /\ copied_dirs = <<>>

C6_Witness ==
    /\ CleanupReturned
    /\ rmFailed # {}
    /\ \E q \in TrackedAtCleanup : ~Exists(atCleanup.fs, q)
    /\ \E q \in TrackedAtCleanup : Exists(atCleanup.fs, q) /\ ~Exists(fs, q)

\* p lies in (or is) an .egg-info directory below the project root
InEggInfo(t, p) ==
    \E k \in (Len(ProjectRoot) + 1)..Len(p) :
        /\ p[k].ext = EggExt
        /\ SubSeq(p, 1, k) \in t.dirs
        /\ IsRelativeTo(p, ProjectRoot)

\* t without its .egg-info directories and without the directories below
\* the source directory that then hold no file
WithoutBuildLeftovers(t) ==
    LET files == {f \in DOMAIN t.files : ~InEggInfo(t, f)}
    IN [dirs |-> {d \in t.dirs :
                     /\ ~InEggInfo(t, d)
                     /\ (IsRelativeTo(d, SrcDir) /\ d # SrcDir)
                        => \E f \in files : IsRelativeTo(f, d)},
        files |-> [f \in files |-> t.files[f]]]

NothingTracked(h) == h.cf = <<>> /\ h.cd = <<>>

\* C7 as stated: a cleanup with nothing tracked leaves the tree unchanged.
C7_NoTrackedStateNoOp ==
    \A i \in 1..(Len(hist) - 1) :
        (hist[i + 1].op = "cleanup" /\ NothingTracked(hist[i]))
        => hist[i + 1].fs = hist[i].fs

\* C7, amended: a cleanup with nothing tracked removes the .egg-info
\* directories below the project root and the directories below the source
\* directory that hold no file, and leaves every other file and directory
\* unchanged; a cleanup directly after a cleanup changes nothing.
C7_NoTrackedStateLeftovers ==
    \A i \in 1..(Len(hist) - 1) :
        (hist[i + 1].op = "cleanup" /\ NothingTracked(hist[i]))
        => /\ hist[i + 1].fs = WithoutBuildLeftovers(hist[i].fs)
           /\ NothingTracked(hist[i + 1])
           /\ hist[i].op = "cleanup" => hist[i + 1].fs = hist[i].fs

C7_Witness ==
    /\ Len(hist) = 3
    /\ hist[2].op = "cleanup"
    /\ hist[3].op = "cleanup"
    /\ hist[2].fs # hist[1].fs
    /\ \E d \in hist[1].fs.dirs : Children(hist[1].fs, d) = {} /\ d \notin hist[2].fs.dirs

----------------------------------------------------------------------------
(* Properties of classify_import                                           *)

Classified == cls # NoClass

\* C8: an import whose first dotted segment is a standard-library module is
\* classified stdlib with no resolved path, whatever the tree holds.
C8_StdlibFirst ==
    (Classified /\ RootModule(imp.module_name) \in StdlibModules)
    => cls = [classification |-> "stdlib", resolved_path |-> NoPath]

C8_Witness ==
    /\ Classified
    /\ imp.module_name = Mod(<<n_os>>)
    /\ IsFile(fs, SrcDir \o <<Py(n_os)>>)
    /\ cls.classification = "stdlib"

\* C9: after classify_import, resolved_path is set iff the classification
\* is local or external; a local path lies in the source directory, an
\* external one in the project root and outside the source directory.
C9_ResolvedPathInvariant ==
    Classified =>
        /\ (cls.resolved_path # NoPath) <=> (cls.classification \in {"local", "external"})
        /\ cls.classification = "local" => IsRelativeTo(cls.resolved_path, SrcDir)
        /\ cls.classification = "external" =>
             /\ IsRelativeTo(cls.resolved_path, ProjectRoot)
             /\ ~IsRelativeTo(cls.resolved_path, SrcDir)

\* the statement an extracted ImportInfo was made from
Statement(t, info) == t.files[info.file_path][info.line_number]

\* C10: for `from .sibling import x` in a file next to sibling.py,
\* extract_imports followed by classify_import yields local when the
\* sibling is in the source directory, external when it is not, and the
\* sibling file as resolved_path.
C10_SiblingImport ==
    LET stmt == Statement(fs, imp)
        sibling == WithSuffixPy(JoinParts(Parent(imp.file_path), stmt.parts))
    IN (/\ Classified
        /\ imp.line_number > 0
        /\ stmt.level = 1
        /\ stmt.parts # <<>>
        /\ IsFile(fs, sibling))
       => /\ cls.resolved_path = sibling
          /\ cls.classification =
                 IF IsRelativeTo(sibling, SrcDir) THEN "local" ELSE "external"

----------------------------------------------------------------------------
(* Properties of find_external_dependencies                                *)

\* the tree find_external_dependencies scanned
Scanned == hist[1].fs

Found == pc = "copy"

\* the import statement an entry was produced for, as extract_imports
\* returned it
TriggeringImports(d) ==
    {info \in Range(ExtractImports(Scanned, d.file_path)) :
        info.module_name = d.import_name}

\* C11: every entry find_external_dependencies returns was produced for an
\* import of a scanned file that classify_import classifies as external;
\* imports classified stdlib, third_party, local or ambiguous produce none,
\* so a file with only such imports yields the empty list.
C11_OnlyExternalStaged ==
    Found =>
        \A i \in 1..Len(deps) :
            /\ TriggeringImports(deps[i]) # {}
            /\ \A info \in TriggeringImports(deps[i]) :
                   ClassifyImport(Scanned, info, FindSrcDir, ProjectRoot).classification
                       = "external"

\* a/b/f.py imports os, requests, an unknown module and a module of a/b,
\* u.py lies in the project root, and nothing is returned
C11_Witness ==
    /\ Found
    /\ deps = <<>>
    /\ IsFile(Scanned, ProjectRoot \o <<Py(n_u)>>)
    /\ {c.classification :
          c \in {ClassifyImport(Scanned, info, FindSrcDir, ProjectRoot) :
                    info \in Range(ExtractImports(Scanned, FindSrcDir \o <<Py(n_f)>>))}}
         = {"stdlib", "third_party", "ambiguous", "local"}

\* a name that equals or starts with a default or a user-supplied pattern
ExcludedName(n) ==
    \E pat \in EXCLUDE_PATTERNS \cup exclude_patterns : StartsWith(FullName(n), pat)

HasExcludedSegment(p) == \E i \in 1..Len(p) : ExcludedName(p[i])

\* the entries _copy_dependency has been called on
CopiedEntries == IF Found THEN 1..(phase - 1) ELSE {}

\* C12: no returned entry has a source_path with a segment that equals or
\* starts with an exclusion pattern, also when the excluded file is the only
\* one that satisfies the import; and once entries are copied, no file or
\* directory below a destination has such a name, at any depth.
C12_ExcludedNeverStaged ==
    /\ Found => \A i \in 1..Len(deps) : ~HasExcludedSegment(deps[i].source_path)
    /\ \A i \in CopiedEntries :
          \A q \in fs.dirs \cup DOMAIN fs.files :
              IsRelativeTo(q, deps[i].target_path) => ~HasExcludedSegment(q)

\* l was copied to a/b/l although l/_SS/z.py and l/sub/tmp_x.py were
\* there, and _SS/x.py, the only file for `import _SS.x`, was not returned
C12_Witness ==
    /\ Found
    /\ phase > 1
    /\ IsFile(Scanned, LDir \o <<D(n_SS), Py(n_z)>>)
    /\ IsFile(Scanned, LDir \o <<D(n_sub), Py(n_tmp_x)>>)
    /\ IsFile(Scanned, ProjectRoot \o <<D(n_SS), Py(n_x)>>)
    /\ IsFile(Scanned, ProjectRoot \o <<Py(n_tmp_x)>>)
    /\ IsFile(fs, FindSrcDir \o <<D(n_l), Py(n_u)>>)
    /\ IsDir(fs, FindSrcDir \o <<D(n_l), D(n_sub)>>)
    /\ Len(deps) = 1

\* classify_import(info, src_dir) for `import parts` in a/b/f.py, on the
\* scanned tree
ScannedClass(parts) ==
    ClassifyImport(Scanned,
                   [module_name |-> Mod(parts), line_number |-> 0,
                    file_path |-> FindSrcDir \o <<Py(n_f)>>],
                   FindSrcDir, ProjectRoot)

\* C13: the list one call of find_external_dependencies returns holds at
\* most one entry for any source_path, however many imports resolve to it.
C13_OneEntryPerSource ==
    Found =>
        \A i, j \in 1..Len(deps) :
            deps[i].source_path = deps[j].source_path => i = j

\* `import l.u` and `import l` both resolve into the directory l, which is
\* returned once
C13_Witness ==
    /\ Found
    /\ Len(deps) = 1
    /\ deps[1].source_path = LDir
    /\ ScannedClass(<<n_l, n_u>>) =
          [classification |-> "external", resolved_path |-> LDir \o <<Py(n_u)>>]
    /\ ScannedClass(<<n_l>>) =
          [classification |-> "external", resolved_path |-> LDir \o <<InitPy>>]

\* C14: once _copy_dependency has copied a returned entry, classify_import
\* on a fresh ImportInfo for the import that produced it (same module
\* name, importing file and source root) gives "local".
C14_CopiedImportIsLocal ==
    (Found /\ cls # NoClass) => cls.classification = "local"

\* C15: every returned entry has a source_path that is neither inside the
\* source root nor the source root or one of its ancestors, and a
\* target_path inside the source root (a path below it, not the source
\* root itself).
C15_SourceOutsideTargetInside ==
    Found =>
        \A i \in 1..Len(deps) :
            /\ ~IsRelativeTo(deps[i].source_path, FindSrcDir)
            /\ ~IsRelativeTo(FindSrcDir, deps[i].source_path)
            /\ IsRelativeTo(deps[i].target_path, FindSrcDir)
            /\ deps[i].target_path # FindSrcDir

\* C17: two entries of one returned list with different source_path never
\* have the same target_path.
C17_DistinctTargets ==
    Found =>
        \A i, j \in 1..Len(deps) :
            deps[i].source_path # deps[j].source_path
                => deps[i].target_path # deps[j].target_path

\* C18: the enclosing directory of the resolved file is returned instead of
\* the file only when the directory is not excluded, holds an __init__.py
\* or is small, the dotted import path has more than two segments, and the
\* directory is neither an ancestor nor a descendant of the source root nor
\* the project root.  (Every directory of these trees is small.)
C18_DirectoryOnlyWhen ==
    Found =>
        \A i \in 1..Len(deps) :
            IsDir(Scanned, deps[i].source_path) =>
                /\ ~HasExcludedSegment(deps[i].source_path)
                /\ Len(deps[i].import_name.parts) > 2
                /\ ~IsRelativeTo(deps[i].source_path, FindSrcDir)
                /\ ~IsRelativeTo(FindSrcDir, deps[i].source_path)
                /\ deps[i].source_path # ProjectRoot

\* C19: the last segment of every target_path _determine_target_path
\* computes is the name of the source directory or source file.
C19_TargetKeepsName ==
    Found =>
        \A i \in 1..Len(deps) :
            Last(deps[i].target_path) = Last(deps[i].source_path)

----------------------------------------------------------------------------
(* Properties of _copy_dependency on the returned entries                  *)

\* the entry copied last, and the directory its staged material starts in
LastCopied == deps[phase - 1]

StagedRoot(d) ==
    IF IsDir(Scanned, d.source_path) THEN d.target_path ELSE Parent(d.target_path)

\* the staged material holds Python files
StagedPython(d) ==
    IF IsDir(Scanned, d.source_path) THEN RglobPy(fs, d.target_path) # {}
    ELSE Last(d.source_path).ext = PyExt /\ IsFile(fs, d.target_path)

\* the directories from r up to, but not including, the source root
UpToSrc(r) == {SubSeq(r, 1, k) : k \in (Len(FindSrcDir) + 1)..Len(r)}

\* q was copied from a file of a returned directory
CopiedFromSource(q) ==
    \E i \in CopiedEntries :
        /\ IsRelativeTo(q, deps[i].target_path)
        /\ IsFile(Scanned, deps[i].source_path
                             \o SubSeq(q, Len(deps[i].target_path) + 1, Len(q)))

MarkersBelowSrc(t) ==
    {q \in DOMAIN t.files : Last(q) = InitPy /\ IsRelativeTo(q, FindSrcDir)}

\* C20: after _copy_dependency has staged an entry that holds Python
\* files, every directory from the staged item's root (for a file entry
\* the directory holding the staged file) up to, but not including, the
\* source root contains an __init__.py; the markers created for this are
\* empty and tracked in copied_files, and an __init__.py that was there
\* before is still there with its content.  (That cleanup removes the
\* created markers again is the part of the claim about a later step.)
C20_MarkersUpToSrc ==
    (Found /\ phase > 1) =>
        /\ (StagedPython(LastCopied) /\ IsRelativeTo(LastCopied.target_path, FindSrcDir))
              => \A d \in UpToSrc(StagedRoot(LastCopied)) : IsFile(fs, d \o <<InitPy>>)
        /\ \A q \in MarkersBelowSrc(fs) \ MarkersBelowSrc(Scanned) :
              CopiedFromSource(q) \/ (fs.files[q] = <<>> /\ q \in Range(copied_files))
        /\ \A q \in MarkersBelowSrc(Scanned) :
              IsFile(fs, q) /\ fs.files[q] = Scanned.files[q]

----------------------------------------------------------------------------
(* Properties of SubfolderBuildConfig                                      *)

\* the project before the first call on the configuration
Before == hist[1].fs

\* one create_temp_pyproject that returned, then restore or __exit__
CreatedAndRestored ==
    /\ pc = "config"
    /\ Len(hist) = 3
    /\ hist[2].op = "create_temp_pyproject"
    /\ hist[3].op \in {"restore", "__exit__"}

\* q is a file with the same content before and now, or absent both times
AsBefore(q) ==
    /\ IsFile(fs, q) = IsFile(Before, q)
    /\ IsFile(fs, q) => fs.files[q] = Before.files[q]

\* C16: create_temp_pyproject followed by restore, directly or through the
\* context-manager exit, leaves the root pyproject.toml with its original
\* content (or absent as before), no backup or temporary file behind,
\* every root README as it was (same content, or absent if it was absent),
\* and src_dir/__init__.py removed exactly when create_temp_pyproject
\* created it, a file that was there before keeping its content.
C16_CreateRestoreRoundTrip ==
    CreatedAndRestored =>
        /\ AsBefore(ProjectRoot \o <<PyprojectToml>>)
        /\ ~Exists(fs, ProjectRoot \o <<PyprojectOriginal>>)
        /\ ~Exists(fs, ProjectRoot \o <<PyprojectTemp>>)
        /\ \A i \in 1..Len(README_NAMES) :
              /\ AsBefore(ProjectRoot \o <<README_NAMES[i]>>)
              /\ ~Exists(fs, ProjectRoot \o <<BackupName(README_NAMES[i])>>)
        /\ AsBefore(SubfolderDir \o <<InitPy>>)

\* the import statements of the Python files under the source directory
\* that classify external on the tree t
ExternalImports(t) ==
    {info \in UNION {Range(ExtractImports(t, file)) : file \in FindAllPythonFiles(t, SrcDir)} :
        ClassifyImport(t, info, SrcDir, ProjectRoot).classification = "external"}

\* C28: after one prepare_build that returned, every import of every
\* Python file under the source directory, the files just staged
\* included, classifies as non-external.
C28_StagingClosed ==
    (Len(hist) >= 2 /\ hist[2].op = "prepare_build") => ExternalImports(hist[2].fs) = {}

\* C21: a copy that fails never aborts prepare_build: prepare_build does
\* not leave with the exception of an entry's copy, so every entry of the
\* list is attempted.
C21_CopyFailureSkipped ==
    \A i \in 1..Len(hist) : hist[i].op # "prepare_build_copy_raised"

\* the order of the steps in the docstring of build_and_publish
DocumentedOrder ==
    <<"set_version", "prepare", "build", "publish", "cleanup", "restore_versioning">>

Rank(step) == CHOOSE k \in 1..Len(DocumentedOrder) : DocumentedOrder[k] = step

\* C22: build_and_publish performs its steps in the documented order: set
\* version, prepare, build, publish, clean up, restore versioning; in
\* particular the package is published before the copied files are
\* cleaned up.
C22_BuildAndPublishOrder ==
    pc = "bp_return" =>
        \A i, j \in 1..Len(publish) :
            (/\ i < j
             /\ publish[i] \in Range(DocumentedOrder)
             /\ publish[j] \in Range(DocumentedOrder))
            => Rank(publish[i]) < Rank(publish[j])

----------------------------------------------------------------------------
(* analyzer.py alone: find_all_python_files and extract_imports on the     *)
(* files of a source directory                                             *)

MaxStatements == 3          \* import statements in the file that is read
MaxNesting == 1             \* depth of an import statement in the syntax tree

n_builder == <<"b", "u", "i", "l", "d", "e", "r">>
n_dist == <<"d", "i", "s", "t">>
n_build == <<"b", "u", "i", "l", "d">>

\* `import u`, `import v` inside a compound statement, `from . import x`,
\* `from .. import x`, `from .x import y`
AnalyzerStatements ==
    {Mod(<<n_u>>), Rel(1, <<>>), Rel(2, <<>>), Rel(1, <<n_x>>)}
    \cup {Nested(Mod(<<n_v>>), d) : d \in 1..MaxNesting}

AnalyzerContents ==
    UNION {[1..n -> AnalyzerStatements] : n \in 0..MaxStatements}

\* src/builder.py, src/dist.py, src/pkg/k.py, src/build/y.py,
\* src/pkg/builder/y.py
AnalyzerOptional ==
    { SrcDir \o <<Py(n_builder)>>, SrcDir \o <<Py(n_dist)>>,
      SrcDir \o <<D(n_pkg), Py(n_k)>>, SrcDir \o <<D(n_build), Py(n_y)>>,
      SrcDir \o <<D(n_pkg), D(n_builder), Py(n_y)>> }

\* src/f.py with every content beside all the other files, and with one
\* content beside every choice of the other files
AnalyzerTrees ==
    {MkTree(FFile(c) @@ [q \in AnalyzerOptional |-> <<>>], {}) : c \in AnalyzerContents}
    \cup {MkTree(FFile(<<Mod(<<n_u>>)>>) @@ [q \in S |-> <<>>], {})
          : S \in SUBSET AnalyzerOptional}

AnalyzerInit ==
    /\ fs \in AnalyzerTrees
    /\ copied_files = <<>>
    /\ copied_dirs = <<>>
    /\ deps = <<>>
    /\ pc = "analyze"
    /\ phase = 0
    /\ ret = "idle"
    /\ atCleanup = [fs |-> fs, cf |-> <<>>, cd |-> <<>>]
    /\ rmFailed = {}
    /\ clRaised = FALSE
    /\ exc = FALSE
    /\ trace = <<>>
    /\ modified_import_files = <<>>
    /\ subfolder_config = NoConfig
    /\ cli = NoArgs
    /\ extracted = [file_path |-> NoPath, result |-> <<>>]
    /\ listing = [directory |-> NoPath, result |-> {}]
    /\ publish = <<>>
    /\ hist = <<Snapshot("init", fs, <<>>, <<>>, {})>>
    /\ scanOrder = "files"
    /\ imp = NoImport
    /\ cls = NoClass
    /\ config = NoConfig

\* ImportAnalyzer(project_root).find_all_python_files(directory)
FindAllPythonFilesCall ==
    /\ pc = "analyze"
    /\ \E directory \in {d \in fs.dirs : IsRelativeTo(d, SrcDir)} :
         listing' = [directory |-> directory,
                     result |-> FindAllPythonFiles(fs, directory)]
    /\ UNCHANGED <<modified_import_files, subfolder_config, cli, extracted,
                   publish, config, fs, copied_files, copied_dirs, deps, pc,
                   phase, ret, atCleanup, rmFailed, clRaised, exc, trace,
                   hist, scanOrder, imp, cls>>

\* ImportAnalyzer(project_root).extract_imports(file)
ExtractImportsCall ==
    /\ pc = "analyze"
    /\ \E file \in RglobPy(fs, SrcDir) :
         extracted' = [file_path |-> file, result |-> ExtractImports(fs, file)]
    /\ UNCHANGED <<modified_import_files, subfolder_config, cli, listing,
                   publish, config, fs, copied_files, copied_dirs, deps, pc,
                   phase, ret, atCleanup, rmFailed, clRaised, exc, trace,
                   hist, scanOrder, imp, cls>>

AnalyzerNext ==
    \/ FindAllPythonFilesCall
    \/ ExtractImportsCall

SpecAnalyzer == AnalyzerInit /\ [][AnalyzerNext]_vars

----------------------------------------------------------------------------
(* Properties of extract_imports and find_all_python_files                 *)

\* C23: extract_imports returns the imports in the order of the file (the
\* line numbers never decrease along the list), the imports nested in a
\* function body or a conditional block included: a nested import on an
\* earlier line stands before a top-level import on a later line.
C23_FileOrder ==
    \A i, j \in DOMAIN extracted.result :
        i < j => extracted.result[i].line_number <= extracted.result[j].line_number

\* the statements of the file extract_imports was called on
ReadStatements == fs.files[extracted.file_path]

\* C24: for `from . import x` and `from .. import x` extract_imports
\* records a declaration with an empty module path and the relative
\* level; such an import is never dropped.
C24_BareRelativeKept ==
    extracted.file_path # NoPath =>
        \A k \in DOMAIN ReadStatements :
            (ReadStatements[k].level > 0 /\ ReadStatements[k].parts = <<>>)
            => \E info \in Range(extracted.result) :
                   /\ info.line_number = k
                   /\ info.module_name = Rel(ReadStatements[k].level, <<>>)

\* some directory of the path, the file's own name left out, has an
\* excluded name or starts with one
InExcludedDirectory(q) ==
    \E i \in 1..(Len(q) - 1) :
        \/ \E pat \in TOOL_DIRS : StartsWith(FullName(q[i]), pat)
        \/ Contains(FullName(q[i]), EggExt)

\* C25: find_all_python_files(root) returns exactly the .py files under
\* root that are not inside an excluded directory: a file is left out
\* if and only if a directory of its path matches, never because of its
\* own name.
C25_ExcludedByDirectoryOnly ==
    listing.directory # NoPath =>
        listing.result = {q \in RglobPy(fs, listing.directory) :
                              IsFile(fs, q) /\ ~InExcludedDirectory(q)}

----------------------------------------------------------------------------
(* python_package_folder.py: main() on --project-root, --src-dir,          *)
(* --version and --analyze-only, up to its decision about the subfolder    *)
(* build, beside BuildManager(project_root, src_dir)._is_subfolder_build() *)

\* p, p/src, p/src/a, p/a, p/a/b, p/srcs, o, o/src and the file-system root
MainPaths ==
    { ProjectRoot, SrcDir, SrcDir \o <<D(n_a)>>, ProjectRoot \o <<D(n_a)>>,
      ProjectRoot \o <<D(n_a), D(n_b)>>, ProjectRoot \o <<D(<<"s", "r", "c", "s">>)>>,
      <<D(n_o)>>, <<D(n_o), D(n_src)>>, Root }

\* main(): `is_subfolder = ...`
MainIsSubfolder(src_dir, project_root) ==
    \/ ~IsRelativeTo(src_dir, project_root \o <<D(n_src)>>)
    \/ src_dir # project_root \o <<D(n_src)>> /\ src_dir # project_root

MainInit ==
    /\ fs \in {MkTree(FFile(<<>>), {})}
    /\ copied_files = <<>>
    /\ copied_dirs = <<>>
    /\ deps = <<>>
    /\ pc = "main"
    /\ phase = 0
    /\ ret = "idle"
    /\ atCleanup = [fs |-> fs, cf |-> <<>>, cd |-> <<>>]
    /\ rmFailed = {}
    /\ clRaised = FALSE
    /\ exc = FALSE
    /\ trace = <<>>
    /\ modified_import_files = <<>>
    /\ subfolder_config = NoConfig
    /\ cli \in {[NoArgs EXCEPT !.project_root = r, !.src_dir = d, !.version = v,
                               !.analyze_only = a]
                : r \in MainPaths, d \in MainPaths, v \in BOOLEAN, a \in BOOLEAN}
    /\ extracted = [file_path |-> NoPath, result |-> <<>>]
    /\ listing = [directory |-> NoPath, result |-> {}]
    /\ publish = <<>>
    /\ hist = <<Snapshot("init", fs, <<>>, <<>>, {})>>
    /\ scanOrder = "files"
    /\ imp = NoImport
    /\ cls = NoClass
    /\ config = NoConfig

\* main() from the construction of the BuildManager to the test of
\* --version: with --analyze-only it returns 0 before is_subfolder is
\* computed; a subfolder build without --version returns 1
Main ==
    /\ pc = "main"
    /\ cli.returned = "none"
    /\ cli' = IF cli.analyze_only THEN [cli EXCEPT !.returned = "0"]
              ELSE The({[cli EXCEPT !.is_subfolder = is_subfolder,
                                    !.returned = IF is_subfolder /\ ~cli.version
                                                 THEN "1" ELSE "build"]
                        : is_subfolder \in {MainIsSubfolder(cli.src_dir, cli.project_root)}})
    /\ UNCHANGED <<modified_import_files, subfolder_config, extracted,
                   listing, publish, config, fs, copied_files, copied_dirs,
                   deps, pc, phase, ret, atCleanup, rmFailed, clRaised, exc,
                   trace, hist, scanOrder, imp, cls>>

\* BuildManager(project_root, src_dir)._is_subfolder_build() for the paths
\* main() was given
IsSubfolderBuildCall ==
    /\ pc = "main"
    /\ ~cli.asked
    /\ cli' = [cli EXCEPT !.asked = TRUE,
                          !.is_subfolder_build =
                              IsSubfolderBuild(cli.src_dir, cli.project_root)]
    /\ UNCHANGED <<modified_import_files, subfolder_config, extracted,
                   listing, publish, config, fs, copied_files, copied_dirs,
                   deps, pc, phase, ret, atCleanup, rmFailed, clRaised, exc,
                   trace, hist, scanOrder, imp, cls>>

MainNext ==
    \/ Main
    \/ IsSubfolderBuildCall

SpecMain == MainInit /\ [][MainNext]_vars

\* C30: main() treats the build as a subfolder build, and rejects a
\* missing --version, exactly when _is_subfolder_build() is true for the
\* same project root and source directory.
C30_MainAgreesWithManager ==
    (cli.returned \in {"1", "build"} /\ cli.asked) =>
        /\ cli.is_subfolder = cli.is_subfolder_build
        /\ (cli.returned = "1") = (cli.is_subfolder_build /\ ~cli.version)

----------------------------------------------------------------------------
(* Properties of repeated subfolder configurations                         *)

\* the operations that call create_temp_pyproject, and those that restore
CreateOps == {"create_temp_pyproject", "prepare_build"}
RestoreOps == {"restore", "__exit__", "cleanup"}

\* the operation acts on the configuration of the BuildManager
OnManager(op) == op \in {"prepare_build", "cleanup"}

Latest(S) == CHOOSE i \in S : \A j \in S : j <= i

\* create_temp_pyproject has returned twice before any restore
CreatedTwiceBeforeRestore ==
    \E i, j \in 2..Len(hist) :
        /\ i < j
        /\ hist[i].op \in CreateOps
        /\ hist[j].op \in CreateOps
        /\ \A k \in 2..j : hist[k].op \notin RestoreOps

\* the last operation on every configuration that was created is a restore
EveryConfigRestored ==
    \A sec \in BOOLEAN :
        LET own == {i \in 2..Len(hist) : /\ hist[i].op \in CreateOps \cup RestoreOps
                                         /\ OnManager(hist[i].op) = sec}
        IN (\E i \in own : hist[i].op \in CreateOps) => hist[Latest(own)].op \in RestoreOps

\* C26: the root pyproject.toml survives repeated configurations: when
\* create_temp_pyproject has been called more than once on one project
\* root before any restore, and every created configuration has been
\* restored, the root pyproject.toml is there with its original content.
C26_RootPyprojectSurvives ==
    (/\ CreatedTwiceBeforeRestore
     /\ EveryConfigRestored
     /\ IsFile(Before, ProjectRoot \o <<PyprojectToml>>))
    => /\ IsFile(fs, ProjectRoot \o <<PyprojectToml>>)
       /\ fs.files[ProjectRoot \o <<PyprojectToml>>]
              = Before.files[ProjectRoot \o <<PyprojectToml>>]

\* the calls of main() with --version on a subfolder: its own
\* configuration, the one of run_build's prepare_build, the restore of
\* cleanup and the restore of main()
MainCallSequence ==
    /\ Len(hist) = 5
    /\ hist[2].op = "create_temp_pyproject"
    /\ hist[3].op = "prepare_build"
    /\ hist[4].op = "cleanup"
    /\ hist[5].op = "restore"
    /\ IsFile(Before, ProjectRoot \o <<PyprojectToml>>)

\* after the calls of main() the root pyproject.toml is there
MainCallsKeepPyproject ==
    MainCallSequence => IsFile(fs, ProjectRoot \o <<PyprojectToml>>)


\* one prepare_build of the subfolder, then cleanup
PreparedAndCleaned ==
    /\ Len(hist) = 3
    /\ hist[2].op = "prepare_build"
    /\ hist[3].op = "cleanup"

\* C27: what prepare_build creates for a subfolder build outside the
\* tracked copy lists is undone by cleanup: the temporary
\* src_dir/__init__.py is removed and every README of the project root is
\* as it was, no backup left, also when the project root has no
\* pyproject.toml and create_temp_pyproject returns None.
C27_CleanupUndoesSubfolderSetup ==
    PreparedAndCleaned =>
        /\ AsBefore(SubfolderDir \o <<InitPy>>)
        /\ \A i \in 1..Len(README_NAMES) :
              /\ AsBefore(ProjectRoot \o <<README_NAMES[i]>>)
              /\ ~Exists(fs, ProjectRoot \o <<BackupName(README_NAMES[i])>>)


----------------------------------------------------------------------------
(* manager.py: the import rewriting of a subfolder build and its undoing   *)
(* by cleanup.  A Python file of this part is the sequence of its import   *)
(* lines [kind, level, parts, names, eol]: `from <level dots><parts>       *)
(* import <names>` or `import <parts>`, with the line ending the file      *)
(* stores.  A rewriting state is [fs, modified]: the tree and              *)
(* _modified_import_files.                                                 *)

MaxRewriteCalls == 3        \* prepare_build and cleanup calls on one manager
MaxLines == 2               \* import lines of a/b/f.py

LF == "\n"
CRLF == "\r\n"

\* os.linesep of the platform the build runs on
LineSep == LF

FromLine(level, parts, names, eol) ==
    [kind |-> "from", level |-> level, parts |-> parts, names |-> names, eol |-> eol]
ImportLine(parts, eol) ==
    [kind |-> "import", level |-> 0, parts |-> parts, names |-> <<>>, eol |-> eol]

\* Path.read_text(encoding="utf-8"): the file is opened with newline=None,
\* every line ending is read as "\n"
ReadText(content) == [i \in 1..Len(content) |-> [content[i] EXCEPT !.eol = LF]]

\* Path.write_text(text, encoding="utf-8"): every "\n" is written as os.linesep
WriteText(t, file, text) ==
    WriteFile(t, file,
              [i \in 1..Len(text) |->
                  [text[i] EXCEPT !.eol = IF @ = LF THEN LineSep ELSE @]])

\* `from .module import` becomes `from module import`; node.module None
\* and level 0 are left alone
FixRelativeLine(line) ==
    IF line.kind = "from" /\ line.parts # <<>> /\ line.level > 0
    THEN [line EXCEPT !.level = 0]
    ELSE line

\* the .py targets, and the .py files below the directory targets
CopiedPythonFiles(t, external_deps) ==
    UNION { IF IsFile(t, d.target_path) /\ Last(d.target_path).ext = PyExt
            THEN {d.target_path}
            ELSE IF IsDir(t, d.target_path) THEN RglobPy(t, d.target_path)
            ELSE {}
            : d \in Range(external_deps) }

\* copied_import_names: the root module and the import name of every entry
CopiedImportNames(external_deps) ==
    UNION {{<<d.import_name.parts[1]>>, d.import_name.parts} : d \in Range(external_deps)}

\* the files of python_files the rewriting may touch: inside src_dir and
\* not below the target of an entry
OwnFiles(python_files, external_deps, src_dir) ==
    SelectSeq(python_files,
              LAMBDA f : /\ \A d \in Range(external_deps) : ~IsRelativeTo(f, d.target_path)
                         /\ IsRelativeTo(f, src_dir))

\* local_file_names: the stems of the own .py files but __init__
LocalFileNames(python_files, external_deps, src_dir) ==
    {Last(f).stem : f \in {g \in Range(OwnFiles(python_files, external_deps, src_dir)) :
                              Last(g).ext = PyExt /\ Last(g) # InitPy}}

\* `from module import` becomes `from .module import` and `import name`
\* becomes `from . import name` when the root module is copied or local;
\* a line that starts with "from ." is left alone
ConvertLine(line, copied, local) ==
    IF line.parts = <<>> THEN line
    ELSE IF ~( \/ <<line.parts[1]>> \in copied
               \/ line.kind = "from" /\ line.parts \in copied
               \/ line.parts[1] \in local )
    THEN line
    ELSE IF line.kind = "from"
    THEN IF line.level > 0 THEN line ELSE [line EXCEPT !.level = 1]
    ELSE FromLine(1, <<>>, <<line.parts>>, line.eol)

\* the new text of one line: _fix_relative_imports_in_copied_files has no
\* names to look at, _convert_imports_to_relative has copied_import_names
\* and local_file_names
NewLine(line, names) ==
    IF names.convert THEN ConvertLine(line, names.copied, names.local)
    ELSE FixRelativeLine(line)

\* lines_to_modify, `if modified:` keep the text that was read unless the
\* file has an entry already, and write the new text
RewriteLines(st0, file, names) ==
    The({The({IF new = text THEN st0
              ELSE [fs |-> WriteText(st0.fs, file, new),
                    modified |-> IF file \in DOMAIN st0.modified THEN st0.modified
                                 ELSE (file :> text) @@ st0.modified]
              : new \in {[i \in 1..Len(text) |-> NewLine(text[i], names)]}})
         : text \in {ReadText(st0.fs.files[file])}})

\* `for file_path in ...`: a file that cannot be read is passed over
RECURSIVE RewriteAll(_, _, _)
RewriteAll(st, files, names) ==
    IF files = <<>> THEN st
    ELSE RewriteAll(IF IsFile(st.fs, Head(files))
                    THEN RewriteLines(st, Head(files), names)
                    ELSE st,
                    Tail(files), names)

\* _fix_relative_imports_in_copied_files
FixRelativeImportsInCopiedFiles(st, external_deps) ==
    RewriteAll(st, SeqOfSet(CopiedPythonFiles(st.fs, external_deps)),
               [convert |-> FALSE, copied |-> {}, local |-> {}])

\* _convert_imports_to_relative
ConvertImportsToRelative(st, python_files, external_deps, src_dir) ==
    RewriteAll(st, OwnFiles(python_files, external_deps, src_dir),
               [convert |-> TRUE,
                copied |-> CopiedImportNames(external_deps),
                local |-> LocalFileNames(python_files, external_deps, src_dir)])

\* cleanup: `for file_path, original_content in _modified_import_files`,
\* write the kept text when the file exists; what the write raises is caught
RestoreModifiedImportFiles(t, modified) ==
    LET WriteBack(acc, file) ==
            IF IsFile(acc, file) THEN WriteText(acc, file, modified[file]) ELSE acc
        RECURSIVE Go(_, _)
        Go(acc, files) == IF files = <<>> THEN acc
                          ELSE Go(WriteBack(acc, Head(files)), Tail(files))
    IN Go(t, SeqOfSet(DOMAIN modified))


n_g == <<"g">>

\* the import lines a/b/f.py may hold: an external module, a local module
\* and a standard-library module, each ending with "\n" or "\r\n"
RewriteCandidates ==
    UNION { { FromLine(0, <<n_u>>, <<<<n_x>>>>, eol), ImportLine(<<n_u>>, eol),
              FromLine(0, <<n_g>>, <<<<n_z>>>>, eol), ImportLine(<<n_os>>, eol) }
            : eol \in {LF, CRLF} }

RewriteContents ==
    UNION { [1..n -> RewriteCandidates] : n \in 1..MaxLines }

\* <project>/u.py, alone or with a relative import of its sibling k.py
DependencyContents == { <<>>, <<FromLine(1, <<n_k>>, <<<<n_y>>>>, LF)>> }

\* the package a/b with f.py, g.py and __init__.py; u.py and k.py at the
\* project root; the root pyproject.toml may or may not be there
RewriteTrees ==
    { MkTree(((FindSrcDir \o <<Py(n_f)>>) :> f)
             @@ ((FindSrcDir \o <<Py(n_g)>>) :> <<>>)
             @@ ((FindSrcDir \o <<InitPy>>) :> <<>>)
             @@ ((ProjectRoot \o <<Py(n_u)>>) :> u)
             @@ ((ProjectRoot \o <<Py(n_k)>>) :> <<>>)
             @@ (IF root THEN (ProjectRoot \o <<PyprojectToml>>) :> RootPyprojectContent
                 ELSE <<>>), {})
      : f \in RewriteContents, u \in DependencyContents, root \in BOOLEAN }

RewriteInit ==
    /\ fs \in RewriteTrees
    /\ copied_files = <<>>
    /\ copied_dirs = <<>>
    /\ deps = <<>>
    /\ pc = "rewrite"
    /\ phase = 0
    /\ ret = "idle"
    /\ atCleanup = [fs |-> fs, cf |-> <<>>, cd |-> <<>>]
    /\ rmFailed = {}
    /\ clRaised = FALSE
    /\ exc = FALSE
    /\ trace = <<>>
    /\ modified_import_files = <<>>
    /\ subfolder_config = NoConfig
    /\ cli = NoArgs
    /\ extracted = [file_path |-> NoPath, result |-> <<>>]
    /\ listing = [directory |-> NoPath, result |-> {}]
    /\ publish = <<>>
    /\ hist = <<Snapshot("init", fs, <<>>, <<>>, {})>>
    /\ scanOrder = "files"
    /\ imp = NoImport
    /\ cls = NoClass
    /\ config = NoConfig

RewriteCall == pc = "rewrite" /\ Len(hist) <= MaxRewriteCalls

\* `if self._is_subfolder_build() and external_deps:` fix the copied files,
\* then convert the imports of the files of python_files
RewriteImports(st, python_files, external_deps, src_dir, project_root) ==
    IF IsSubfolderBuild(src_dir, project_root) /\ external_deps # <<>>
    THEN ConvertImportsToRelative(FixRelativeImportsInCopiedFiles(st, external_deps),
                                  python_files, external_deps, src_dir)
    ELSE st

\* prepare_build of a subfolder build with the rglob order `reversed` or
\* not: a new SubfolderBuildConfig and its create_temp_pyproject, the
\* search, the copies, the rewriting.  None of the trees imports an
\* installed module, so no dependency is added to the pyproject.toml.
SubfolderPrepareBuildResult(s0, reversed, order, src_dir, project_root) ==
    The({The({The({The({The({
        [fs |-> rewritten.fs, cf |-> staged.cf, cd |-> staged.cd,
         modified |-> rewritten.modified,
         config |-> IF r.returned = "none" THEN NoConfig ELSE r.st.config,
         deps |-> external_deps]
        : rewritten \in {RewriteImports([fs |-> staged.fs, modified |-> s0.modified],
                                        python_files, external_deps,
                                        src_dir, project_root)}})
        : staged \in {CopyAll([fs |-> r.st.fs, cf |-> s0.cf, cd |-> s0.cd],
                              external_deps, order, src_dir)}})
        : external_deps \in {FindExternalDependencies(r.st.fs, python_files,
                                                      src_dir, project_root)}})
        : python_files \in {The({IF reversed THEN Reverse(one) ELSE one
                                 : one \in {SeqOfSet(FindAllPythonFiles(r.st.fs,
                                                                        src_dir))}})}})
        : r \in {CreateTempPyprojectResult(
                     [fs |-> s0.fs, config |-> [NoConfig EXCEPT !.version = TRUE]],
                     src_dir, project_root)}})

\* manager.prepare_build(version=...)
PrepareBuildRewriting ==
    /\ RewriteCall
    /\ \E reversed \in BOOLEAN :
       \E r \in {SubfolderPrepareBuildResult(
                     [fs |-> fs, cf |-> copied_files, cd |-> copied_dirs,
                      modified |-> modified_import_files],
                     reversed, scanOrder, FindSrcDir, ProjectRoot)} :
         /\ fs' = r.fs
         /\ copied_files' = r.cf
         /\ copied_dirs' = r.cd
         /\ modified_import_files' = r.modified
         /\ subfolder_config' = r.config
         /\ deps' = r.deps
         /\ hist' = Append(hist, Snapshot("prepare_build", r.fs, r.cf, r.cd, {}))
    /\ UNCHANGED <<cli, extracted, listing, publish, config, pc, phase, ret,
                   atCleanup, rmFailed, clRaised, exc, trace, scanOrder, imp, cls>>

\* cleanup(): restore the subfolder configuration, remove the copies, clear
\* the lists, write the kept texts back, clear _modified_import_files.  The
\* trees hold no .egg-info directory and no empty directory.
SubfolderCleanupResult(s0, src_dir, project_root) ==
    The({The({RestoreModifiedImportFiles(removed.fs, s0.modified)
              : removed \in {RemoveFiles(RemoveDirs([fs |-> restored, failed |-> {},
                                                     raised |-> FALSE], s0.cd, {}),
                                         s0.cf, {})}})
         : restored \in {IF s0.config = NoConfig THEN s0.fs
                         ELSE RestoreResult([fs |-> s0.fs, config |-> s0.config],
                                            src_dir, project_root).fs}})

\* manager.cleanup()
CleanupRewriting ==
    /\ RewriteCall
    /\ \E t \in {SubfolderCleanupResult(
                     [fs |-> fs, cf |-> copied_files, cd |-> copied_dirs,
                      modified |-> modified_import_files, config |-> subfolder_config],
                     FindSrcDir, ProjectRoot)} :
         /\ fs' = t
         /\ hist' = Append(hist, Snapshot("cleanup", t, <<>>, <<>>, {}))
    /\ copied_files' = <<>>
    /\ copied_dirs' = <<>>
    /\ modified_import_files' = <<>>
    /\ subfolder_config' = NoConfig
    /\ UNCHANGED <<cli, extracted, listing, publish, config, deps, pc, phase, ret,
                   atCleanup, rmFailed, clRaised, exc, trace, scanOrder, imp, cls>>

RewriteNext ==
    \/ PrepareBuildRewriting
    \/ CleanupRewriting

SpecRewrite == RewriteInit /\ [][RewriteNext]_vars

\* the files below the source directory before the first call
RewriteBefore == hist[1].fs

\* a file whose import lines a prepare_build has rewritten: after that call
\* it is there with lines other than those it had when the call began
RewrittenFiles ==
    {file \in DOMAIN RewriteBefore.files :
        /\ IsRelativeTo(file, FindSrcDir)
        /\ \E i \in 2..Len(hist) :
             /\ hist[i].op = "prepare_build"
             /\ IsFile(hist[i - 1].fs, file) /\ IsFile(hist[i].fs, file)
             /\ hist[i].fs.files[file] # hist[i - 1].fs.files[file]}

\* prepare_build once or more, then cleanup
RewrittenAndCleaned ==
    /\ pc = "rewrite"
    /\ Len(hist) >= 3
    /\ hist[Len(hist)].op = "cleanup"
    /\ \A i \in 2..(Len(hist) - 1) : hist[i].op = "prepare_build"

\* C29: in a subfolder build the import rewriting is undone completely.
\* After prepare_build, called once or more, and cleanup, every source file
\* that was there before prepare_build and had import lines rewritten has
\* the content it had before, and _modified_import_files is empty.
C29_ImportRewritingReverted ==
    RewrittenAndCleaned =>
        /\ modified_import_files = <<>>
        /\ \A file \in RewrittenFiles :
             /\ IsFile(fs, file)
             /\ fs.files[file] = RewriteBefore.files[file]

\* the same for the files that end every line with "\n"
C29_RevertedWithUnixLineEndings ==
    RewrittenAndCleaned =>
        \A file \in RewrittenFiles :
            (\A i \in 1..Len(RewriteBefore.files[file]) :
                 RewriteBefore.files[file][i].eol = LF)
            => IsFile(fs, file) /\ fs.files[file] = RewriteBefore.files[file]

\* a file with a "\r\n" line was rewritten and cleanup has run
C29_RewrittenCrlfCleaned ==
    /\ RewrittenAndCleaned
    /\ \E file \in RewrittenFiles :
         /\ IsFile(fs, file)
         /\ fs.files[file] # RewriteBefore.files[file]

====
